---- MODULE Spec2Model ----
(***************************************************************************)
(* Model of the trade orchestration and connection-resilience core of the  *)
(* gateway: TradeService, JitoGrpcManager / YellowstoneGrpcManager,        *)
(* AccountCacheManager, the bundle relay routes and the WebSocket          *)
(* handlers of the streams.  Every await of the JavaScript source is a     *)
(* boundary between two actions; the code between two awaits runs to       *)
(* completion and is one action.                                           *)
(***************************************************************************)
EXTENDS Integers, Sequences, FiniteSets, TLC

\* ------------------------------------------------------------------------
\* Bounds of the model
\* ------------------------------------------------------------------------
\* trades created in one run
MaxTrades == 1
\* submitSignedTransaction calls in flight on one trade at the same time
MaxSubmits == 2

\* ------------------------------------------------------------------------
\* Program constants
\* ------------------------------------------------------------------------
SOL_MINT == "So11111111111111111111111111111111111111112"
TOKEN_MINT == "TokenMint"

\* generateTradeId: 16 random bytes, modelled as a fresh id per call
TradeIds == 1..MaxTrades
\* an id no trade was ever created with
UnknownTradeId == 0
Sockets == {"ws1", "ws2"}

NoBundle == 0
NoError == "undefined"
NoTrade == 0

JITO_TIP_ACCOUNTS ==
  <<"96gYZGLnJYVFmbjzopPSU6QiEV5fGqZNyN9nmNhvrZU5",
    "HFqU5x63VTqvQss8hp11i4wVV8bD44PvwucfZ2bU7gRe",
    "Cw8CFyM9FkoMi7K7Crf6HNQqf4uEMzpKw6QNghXLvLkY",
    "ADaUMid9yfUytqMBgopwjb2DTLSokTSzL1zt6iGPaS49",
    "DfXygSm4jCyNCybVYYK6DwvWqjKee8pbDmJGcLWNDXjh">>

\* tipLamports = 10000 when the caller gives none
DefaultTipLamports == 10000
\* the tipLamports of a call: absent, or a value of the caller's
TipAmounts == {DefaultTipLamports, 2 * DefaultTipLamports}
NoLamports == 0

\* What the providers answer: a blockhash with its last valid block height
\* from the streaming provider or from the RPC, a quote from Jupiter, and the
\* unsigned swap transaction built from it.
NoBlockhash == [blockhash |-> "undefined", lastValidBlockHeight |-> 0]
GrpcBlockhash == [blockhash |-> "blockhashGrpc", lastValidBlockHeight |-> 1001]
RpcBlockhash == [blockhash |-> "blockhashRpc", lastValidBlockHeight |-> 1002]
Quotes == {"quoteA", "quoteB"}
NoQuote == "undefined"
SwapTransaction == "swapTransaction"

VARIABLES
  activeTrades,     \* TradeService.activeTrades: tradeId -> trade
  tradeSubscribers, \* TradeService.tradeSubscribers: the entries ws -> set of
                    \* tradeIds of the Map, in insertion order
  readyState,       \* ws.readyState of the trade status sockets
  sendThrows,       \* the sockets whose ws.send throws
  wsOut,            \* trade_update messages handed to ws.send in the last step, per socket
  nextTradeId,      \* number of ids generateTradeId has produced
  execCall,         \* per trade: position of the executeBuy/executeSell call that created it
  submitCalls,      \* per trade: submitSignedTransaction calls awaiting _sendViaJitoGrpc
  returned,         \* what the call that ended in the last step returned or threw,
                    \* or what the message handler that ran in it replied
  statusLog,        \* history: the values assigned to trade.status, in order
  relaySends        \* history: client.sendBundle invocations per trade

tradeVars == <<activeTrades, tradeSubscribers, readyState, sendThrows, wsOut,
               nextTradeId, execCall, submitCalls, returned, statusLog,
               relaySends>>

\* ------------------------------------------------------------------------
\* TradeService
\* ------------------------------------------------------------------------
StepData(source, uuid, hasTransaction, message) ==
  [source |-> source, uuid |-> uuid, hasTransaction |-> hasTransaction,
   message |-> message]

NoData == StepData("", NoBundle, FALSE, "")

\* What a call hands to its caller: a result object or a thrown Error.
\* entryStatus is the trade status submitSignedTransaction read on entry.
\* payload holds the other fields of a result object.
Payload(quote, swapTransaction, blockhash, lastValidBlockHeight, tipAccount, tipLamports) ==
  [quote |-> quote, swapTransaction |-> swapTransaction,
   blockhash |-> blockhash, lastValidBlockHeight |-> lastValidBlockHeight,
   tipAccount |-> tipAccount, tipLamports |-> tipLamports]

NoPayload ==
  Payload(NoQuote, "undefined", "undefined", "undefined", "undefined",
          NoLamports)

Result(op, kind, tradeId, bundleId, error, entryStatus) ==
  [op |-> op, kind |-> kind, tradeId |-> tradeId, bundleId |-> bundleId,
   error |-> error, entryStatus |-> entryStatus, payload |-> NoPayload]

\* A result object with its other fields.
WithPayload(result, payload) == [result EXCEPT !.payload = payload]

\* A choice of tip account whose index can be the length of the pool.
getRandomTipAccount_PastEnd ==
  {IF i < Len(JITO_TIP_ACCOUNTS) THEN JITO_TIP_ACCOUNTS[i + 1] ELSE "undefined" :
     i \in 0..Len(JITO_TIP_ACCOUNTS)}

\* getRandomTipAccount: Math.floor(Math.random() * length) is any index from
\* 0 to length - 1.
getRandomTipAccount ==
  {JITO_TIP_ACCOUNTS[i + 1] : i \in 0..(Len(JITO_TIP_ACCOUNTS) - 1)}

NoResult == Result("none", "none", NoTrade, NoBundle, NoError, "none")

\* A call of executeBuy / executeSell: its position, its parameters, its
\* local variables blockhash / lastValidBlockHeight and quote, and (history)
\* how each of its awaits settled.
NoCall ==
  [pc |-> "none", op |-> "none", signed |-> FALSE, tipLamports |-> NoLamports,
   blockhash |-> NoBlockhash, quote |-> NoQuote, outcomes |-> <<>>]

\* The call once it has returned or thrown: its locals are gone.
CallDone(call) ==
  [NoCall EXCEPT !.pc = "done", !.op = call.op, !.signed = call.signed,
                 !.outcomes = call.outcomes]

NoMessages == [ws \in Sockets |-> <<>>]

\* The part of TradeService a synchronous run of code reads and writes, the
\* messages it has handed to ws.send, and the exception in flight (NoError:
\* none): the statements an exception skips have no effect.
TradeState ==
  [trades |-> activeTrades, log |-> statusLog, out |-> NoMessages,
   thrown |-> NoError]

\* Object.assign(trade, updates): fields of upd overwrite those of tr.
ObjectAssign(tr, upd) ==
  [f \in DOMAIN tr |-> IF f \in DOMAIN upd THEN upd[f] ELSE tr[f]]

TradeUpdateMessage(tradeId, tr) ==
  [type |-> "trade_update", tradeId |-> tradeId, tradeType |-> tr.type,
   status |-> tr.status, step |-> tr.step, bundleId |-> tr.bundleId,
   error |-> tr.error]

\* The entry of a socket in the Map, and the trade ids it holds.
HasEntry(ws) == \E i \in 1..Len(tradeSubscribers) : tradeSubscribers[i].ws = ws

SubscriptionsOf(ws) ==
  UNION {tradeSubscribers[i].tradeIds :
           i \in {j \in 1..Len(tradeSubscribers) : tradeSubscribers[j].ws = ws}}

\* The message of the Error a failing ws.send throws.
SendError == "WebSocket send failed"

\* A loop that sends to every socket registered for the trade, whatever its
\* readyState.
RECURSIVE NotifyEntries_AnyState(_, _, _, _)
NotifyEntries_AnyState(i, out, tradeId, tr) ==
  IF i > Len(tradeSubscribers)
    THEN [out |-> out, thrown |-> NoError]
    ELSE LET ws == tradeSubscribers[i].ws
         IN IF tradeId \in tradeSubscribers[i].tradeIds
              THEN IF ws \in sendThrows
                     THEN [out |-> out, thrown |-> SendError]
                     ELSE NotifyEntries_AnyState(i + 1,
                            [out EXCEPT ![ws] =
                               Append(@, TradeUpdateMessage(tradeId, tr))],
                            tradeId, tr)
              ELSE NotifyEntries_AnyState(i + 1, out, tradeId, tr)

\* The loop of _notifySubscribers from entry i of the Map on: ws.send to every
\* socket registered for the trade whose readyState is OPEN.  A send that
\* throws ends the loop; nothing in the loop catches it.
RECURSIVE NotifyEntries(_, _, _, _)
NotifyEntries(i, out, tradeId, tr) ==
  IF i > Len(tradeSubscribers)
    THEN [out |-> out, thrown |-> NoError]
    ELSE LET ws == tradeSubscribers[i].ws
         IN IF tradeId \in tradeSubscribers[i].tradeIds /\ readyState[ws] = "OPEN"
              THEN IF ws \in sendThrows
                     THEN [out |-> out, thrown |-> SendError]
                     ELSE NotifyEntries(i + 1,
                            [out EXCEPT ![ws] =
                               Append(@, TradeUpdateMessage(tradeId, tr))],
                            tradeId, tr)
              ELSE NotifyEntries(i + 1, out, tradeId, tr)

\* _notifySubscribers
NotifySubscribers(out, tradeId, tr) == NotifyEntries(1, out, tradeId, tr)

\* _updateTrade that does not call _notifySubscribers.
UpdateTrade_Silent(st, tradeId, upd) ==
  IF st.thrown = NoError /\ tradeId \in DOMAIN st.trades
    THEN LET tr == ObjectAssign(st.trades[tradeId], upd)
         IN [trades |-> [st.trades EXCEPT ![tradeId] = tr],
             log |-> IF "status" \in DOMAIN upd
                       THEN [st.log EXCEPT ![tradeId] = Append(@, upd.status)]
                       ELSE st.log,
             out |-> st.out,
             thrown |-> NoError]
    ELSE st

\* _updateTrade: nothing happens when the trade is not in the table.  The
\* fields are assigned before the subscribers are notified, and an exception
\* of _notifySubscribers leaves _updateTrade.
UpdateTrade(st, tradeId, upd) ==
  IF st.thrown = NoError /\ tradeId \in DOMAIN st.trades
    THEN LET tr == ObjectAssign(st.trades[tradeId], upd)
             sent == NotifySubscribers(st.out, tradeId, tr)
         IN [trades |-> [st.trades EXCEPT ![tradeId] = tr],
             log |-> IF "status" \in DOMAIN upd
                       THEN [st.log EXCEPT ![tradeId] = Append(@, upd.status)]
                       ELSE st.log,
             out |-> sent.out,
             thrown |-> sent.thrown]
    ELSE st

\* An _addStep that writes over the last step of the log.
AddStep_ReplacesLast(st, tradeId, name, status, data) ==
  IF st.thrown = NoError /\ tradeId \in DOMAIN st.trades
    THEN LET steps == st.trades[tradeId].steps
             kept == IF steps = <<>> THEN steps
                     ELSE SubSeq(steps, 1, Len(steps) - 1)
         IN [st EXCEPT !.trades[tradeId].steps =
               Append(kept, [name |-> name, status |-> status,
                             data |-> data])]
    ELSE st

\* _addStep: pushes a step on trade.steps; no notification.
AddStep(st, tradeId, name, status, data) ==
  IF st.thrown = NoError /\ tradeId \in DOMAIN st.trades
    THEN [st EXCEPT !.trades[tradeId].steps =
            Append(@, [name |-> name, status |-> status, data |-> data])]
    ELSE st

SetTradeState(st) ==
  /\ activeTrades' = st.trades
  /\ statusLog' = st.log
  /\ wsOut' = st.out

\* A catch block that records the error step but leaves the status alone.
CatchFailure_StepOnly(st, tradeId, message) ==
  [AddStep(st, tradeId, "error", "failed",
           StepData("", NoBundle, FALSE, message))
     EXCEPT !.thrown = message]

\* The catch block of executeBuy / executeSell / submitSignedTransaction for
\* an error with this message: _updateTrade, _addStep, `throw error`.  When
\* _updateTrade throws, its exception leaves the block in place of the error.
CatchFailure(st, tradeId, message) ==
  LET st1 == UpdateTrade(st, tradeId, [status |-> "failed", error |-> message])
      st2 == AddStep(st1, tradeId, "error", "failed",
                     StepData("", NoBundle, FALSE, message))
  IN IF st1.thrown = NoError THEN [st2 EXCEPT !.thrown = message] ELSE st1

\* try { ... } catch (error) { ... }: the catch block runs when the try block
\* has thrown.
TryCatch(st, tradeId) ==
  IF st.thrown = NoError
    THEN st
    ELSE CatchFailure([st EXCEPT !.thrown = NoError], tradeId, st.thrown)

\* The amount of the request body, as its decimal digits, and what the
\* routes hand to the call: POST /grpc/buy parseInt(amountLamports), a
\* number, POST /grpc/sell amountTokens.toString(), a string.
RequestAmount == "2500000"

JsNumber(digits) == [typeof |-> "number", digits |-> digits]

JsString(digits) == [typeof |-> "string", digits |-> digits]

\* walletPubkey of the request body
WalletPubkey == "wallet"

\* The trade object built by executeBuy (type buy) or executeSell (type sell).
\* createdAt is the place of the trade in the order of creation.
NewTrade(type, tradeId) ==
  [id |-> tradeId,
   type |-> type,
   status |-> "pending",
   step |-> "undefined",
   inputMint |-> IF type = "buy" THEN SOL_MINT ELSE TOKEN_MINT,
   outputMint |-> IF type = "buy" THEN TOKEN_MINT ELSE SOL_MINT,
   amount |-> IF type = "buy" THEN JsNumber(RequestAmount)
                              ELSE JsString(RequestAmount),
   walletPubkey |-> WalletPubkey,
   createdAt |-> tradeId,
   steps |-> <<>>,
   bundleId |-> NoBundle,
   error |-> NoError]

\* executeBuy / executeSell up to the first await (the gRPC blockhash call).
\* No socket is registered for the id generateTradeId has just produced.
ExecuteStart(type, signed, tipLamports) ==
  /\ nextTradeId < MaxTrades
  /\ LET tradeId == nextTradeId + 1
         st0 == [trades |-> [t \in DOMAIN activeTrades \cup {tradeId} |->
                               IF t = tradeId THEN NewTrade(type, tradeId)
                               ELSE activeTrades[t]],
                 log |-> [statusLog EXCEPT ![tradeId] = <<"pending">>],
                 out |-> NoMessages,
                 thrown |-> NoError]
         st1 == UpdateTrade(st0, tradeId, [status |-> "started"])
         st2 == UpdateTrade(st1, tradeId, [step |-> "getting_blockhash"])
     IN /\ SetTradeState(st2)
        /\ nextTradeId' = tradeId
        /\ execCall' = [execCall EXCEPT ![tradeId] =
             [NoCall EXCEPT !.pc = "blockhash_grpc", !.op = type,
                            !.signed = signed, !.tipLamports = tipLamports]]
  /\ returned' = NoResult
  /\ UNCHANGED <<tradeSubscribers, readyState, sendThrows, submitCalls,
                 relaySends>>

executeBuy(signed, tipLamports) == ExecuteStart("buy", signed, tipLamports)

\* An executeSell that does not set the status started.
executeSell_SkipsStarted(signed, tipLamports) ==
  /\ nextTradeId < MaxTrades
  /\ LET tradeId == nextTradeId + 1
         st0 == [trades |-> [t \in DOMAIN activeTrades \cup {tradeId} |->
                               IF t = tradeId THEN NewTrade("sell", tradeId)
                               ELSE activeTrades[t]],
                 log |-> [statusLog EXCEPT ![tradeId] = <<"pending">>],
                 out |-> NoMessages,
                 thrown |-> NoError]
         st2 == UpdateTrade(st0, tradeId, [step |-> "getting_blockhash"])
     IN /\ SetTradeState(st2)
        /\ nextTradeId' = tradeId
        /\ execCall' = [execCall EXCEPT ![tradeId] =
             [NoCall EXCEPT !.pc = "blockhash_grpc", !.op = "sell",
                            !.signed = signed, !.tipLamports = tipLamports]]
  /\ returned' = NoResult
  /\ UNCHANGED <<tradeSubscribers, readyState, sendThrows, submitCalls,
                 relaySends>>

executeSell(signed, tipLamports) == ExecuteStart("sell", signed, tipLamports)

\* The call of trade t goes on as `call` after the await it is at settled
\* with this outcome.
Noted(t, call, outcome) ==
  [call EXCEPT !.outcomes =
     Append(execCall[t].outcomes,
            [await |-> execCall[t].pc, outcome |-> outcome])]

\* The end of a run of code inside the try block of executeBuy / executeSell
\* that left the trade state st: the call goes on (to its next await, or
\* returns) with this position and result, or an exception goes through the
\* catch block to the caller.
ExecuteContinues(t, st, call, result) ==
  LET caught == TryCatch(st, t)
  IN /\ SetTradeState(caught)
     /\ IF caught.thrown = NoError
          THEN /\ execCall' = [execCall EXCEPT ![t] = call]
               /\ returned' = result
          ELSE /\ execCall' = [execCall EXCEPT ![t] = CallDone(call)]
               /\ returned' = Result(execCall[t].op, "error", t, NoBundle,
                                     caught.thrown, "none")

\* An executeBuy / executeSell call fails: catch block, then the error is
\* re-thrown to the caller.
ExecuteThrow(t, message) ==
  ExecuteContinues(t, [TradeState EXCEPT !.thrown = message],
                   Noted(t, execCall[t], message), NoResult)

\* A call that gives up when the streaming provider fails.
BlockhashGrpc_NoFallback(t, ok) ==
  /\ execCall[t].pc = "blockhash_grpc"
  /\ IF ok
       THEN LET st1 == AddStep(TradeState, t, "blockhash", "success",
                               StepData("grpc", NoBundle, FALSE, ""))
                st2 == UpdateTrade(st1, t, [step |-> "getting_quote"])
            IN ExecuteContinues(t, st2,
                 Noted(t, [execCall[t] EXCEPT !.pc = "quote",
                                              !.blockhash = GrpcBlockhash],
                       "ok"),
                 NoResult)
       ELSE ExecuteThrow(t, "gRPC blockhash failed")
  /\ UNCHANGED <<tradeSubscribers, readyState, sendThrows, nextTradeId,
                 submitCalls, relaySends>>

\* yellowstoneGrpc.getLatestBlockhash(1) settles.
BlockhashGrpc(t, ok) ==
  /\ execCall[t].pc = "blockhash_grpc"
  /\ IF ok
       THEN LET st1 == AddStep(TradeState, t, "blockhash", "success",
                               StepData("grpc", NoBundle, FALSE, ""))
                st2 == UpdateTrade(st1, t, [step |-> "getting_quote"])
            IN ExecuteContinues(t, st2,
                 Noted(t, [execCall[t] EXCEPT !.pc = "quote",
                                              !.blockhash = GrpcBlockhash],
                       "ok"),
                 NoResult)
       ELSE /\ execCall' = [execCall EXCEPT ![t] =
                 Noted(t, [@ EXCEPT !.pc = "blockhash_rpc"],
                       "gRPC blockhash failed")]
            /\ returned' = NoResult
            /\ wsOut' = NoMessages
            /\ UNCHANGED <<activeTrades, statusLog>>
  /\ UNCHANGED <<tradeSubscribers, readyState, sendThrows, nextTradeId,
                 submitCalls, relaySends>>

\* _getRpcBlockhash settles.
BlockhashRpc(t, ok) ==
  /\ execCall[t].pc = "blockhash_rpc"
  /\ IF ok
       THEN LET st1 == AddStep(TradeState, t, "blockhash", "success",
                               StepData("rpc_fallback", NoBundle, FALSE, ""))
                st2 == UpdateTrade(st1, t, [step |-> "getting_quote"])
            IN ExecuteContinues(t, st2,
                 Noted(t, [execCall[t] EXCEPT !.pc = "quote",
                                              !.blockhash = RpcBlockhash],
                       "ok"),
                 NoResult)
       ELSE ExecuteThrow(t, "RPC blockhash failed")
  /\ UNCHANGED <<tradeSubscribers, readyState, sendThrows, nextTradeId,
                 submitCalls, relaySends>>

\* getJupiterQuote settles.
JupiterQuote(t, ok) ==
  /\ execCall[t].pc = "quote"
  /\ IF ok
       THEN LET st1 == AddStep(TradeState, t, "quote", "success", NoData)
                st2 == UpdateTrade(st1, t, [step |-> "building_transaction"])
            IN \E quote \in Quotes :
                 ExecuteContinues(t, st2,
                   Noted(t, [execCall[t] EXCEPT !.pc = "swap_tx",
                                                !.quote = quote], "ok"),
                   NoResult)
       ELSE ExecuteThrow(t, "Jupiter quote failed")
  /\ UNCHANGED <<tradeSubscribers, readyState, sendThrows, nextTradeId,
                 submitCalls, relaySends>>

\* getJupiterSwapTx settles.  With a signed transaction the bundle is sent
\* next, without one the call returns awaiting_signature.
JupiterSwapTx(t, ok) ==
  /\ execCall[t].pc = "swap_tx"
  /\ IF ok
       THEN LET st1 == AddStep(TradeState, t, "swap_tx", "success",
                               StepData("", NoBundle, TRUE, ""))
            IN IF execCall[t].signed
                 THEN ExecuteContinues(t,
                        UpdateTrade(st1, t, [step |-> "sending_bundle"]),
                        Noted(t, [execCall[t] EXCEPT !.pc = "send_bundle"],
                              "ok"),
                        NoResult)
                 ELSE \E tipAccount \in getRandomTipAccount :
                        ExecuteContinues(t,
                          UpdateTrade(st1, t, [status |-> "awaiting_signature"]),
                          CallDone(Noted(t, execCall[t], "ok")),
                          WithPayload(
                            Result(execCall[t].op, "awaiting_signature", t,
                                   NoBundle, NoError, "none"),
                            Payload(execCall[t].quote, SwapTransaction,
                                    execCall[t].blockhash.blockhash,
                                    ToString(execCall[t].blockhash.lastValidBlockHeight),
                                    tipAccount, execCall[t].tipLamports)))
       ELSE ExecuteThrow(t, "Jupiter swap failed")
  /\ UNCHANGED <<tradeSubscribers, readyState, sendThrows, nextTradeId,
                 submitCalls, relaySends>>

\* Outcomes of _sendViaJitoGrpc: the relay accepts the bundle, the relay
\* answers with an error (or sendBundle throws), or jitoGrpc.getClient() fails
\* (or the transaction cannot be deserialized) and the relay is never reached.
RelayOutcomes == {"accepted", "rejected", "no_client"}

ReachesRelay(outcome) == outcome \in {"accepted", "rejected"}

\* The uuid the relay answers with: a fresh value for every bundle it is sent.
BundleUuid(tradeId, sends) == 10 * tradeId + sends

\* _sendViaJitoGrpc: never throws, answers {ok, uuid} or {ok: false, error}.
SendViaJitoGrpc(outcome, tradeId) ==
  IF outcome = "accepted"
    THEN [ok |-> TRUE, uuid |-> BundleUuid(tradeId, relaySends[tradeId] + 1),
          error |-> NoError]
    ELSE [ok |-> FALSE, uuid |-> NoBundle, error |-> outcome]

\* The code after the await that sets the status without recording the
\* bundle_sent step.
AfterSendBundle_NoStep(op, t, outcome, entryStatus) ==
  LET bundleResult == SendViaJitoGrpc(outcome, t)
      st1 == IF bundleResult.ok
               THEN UpdateTrade(TradeState, t,
                      [status |-> "submitted", bundleId |-> bundleResult.uuid])
               ELSE [TradeState EXCEPT !.thrown = bundleResult.error]
      caught == TryCatch(st1, t)
  IN /\ SetTradeState(caught)
     /\ returned' =
          IF caught.thrown = NoError
            THEN WithPayload(Result(op, "success", t, bundleResult.uuid,
                                    NoError, entryStatus),
                             [NoPayload EXCEPT !.quote = execCall[t].quote])
            ELSE Result(op, "error", t, NoBundle, caught.thrown, entryStatus)
     /\ relaySends' = IF ReachesRelay(outcome)
                        THEN [relaySends EXCEPT ![t] = @ + 1]
                        ELSE relaySends

\* The code after `await this._sendViaJitoGrpc([signedTransaction])`, the same
\* in executeBuy, executeSell and submitSignedTransaction: bundle_sent and
\* submitted when the result is ok, `throw new Error(bundleResult.error)` when
\* it is not, and the catch block for whatever the try block throws.
AfterSendBundle(op, t, outcome, entryStatus) ==
  LET bundleResult == SendViaJitoGrpc(outcome, t)
      st1 == IF bundleResult.ok
               THEN UpdateTrade(
                      AddStep(TradeState, t, "bundle_sent", "success",
                              StepData("", bundleResult.uuid, FALSE, "")),
                      t, [status |-> "submitted", bundleId |-> bundleResult.uuid])
               ELSE [TradeState EXCEPT !.thrown = bundleResult.error]
      caught == TryCatch(st1, t)
  IN /\ SetTradeState(caught)
     /\ returned' =
          IF caught.thrown # NoError
            THEN Result(op, "error", t, NoBundle, caught.thrown, entryStatus)
            ELSE IF op = "submit"
              THEN Result(op, "success", t, bundleResult.uuid, NoError,
                          entryStatus)
              ELSE WithPayload(
                     Result(op, "success", t, bundleResult.uuid, NoError,
                            entryStatus),
                     [NoPayload EXCEPT !.quote = execCall[t].quote])
     /\ relaySends' = IF ReachesRelay(outcome)
                        THEN [relaySends EXCEPT ![t] = @ + 1]
                        ELSE relaySends

\* _sendViaJitoGrpc settles in executeBuy / executeSell.
ExecuteSendBundle(t, outcome) ==
  /\ execCall[t].pc = "send_bundle"
  /\ AfterSendBundle(execCall[t].op, t, outcome, "none")
  /\ execCall' = [execCall EXCEPT ![t] = CallDone(Noted(t, @, outcome))]
  /\ UNCHANGED <<tradeSubscribers, readyState, sendThrows, nextTradeId,
                 submitCalls>>

\* The call throws before it has changed anything.
SubmitRejected(tradeId, message, entryStatus) ==
  /\ returned' = Result("submit", "error", tradeId, NoBundle, message,
                        entryStatus)
  /\ wsOut' = NoMessages
  /\ UNCHANGED <<activeTrades, statusLog, submitCalls>>

\* _updateTrade(tradeId, { step: 'sending_bundle' }), outside the try block:
\* its exception goes to the caller, otherwise the call awaits
\* _sendViaJitoGrpc.
SubmitAccepted(tradeId) ==
  LET st1 == UpdateTrade(TradeState, tradeId, [step |-> "sending_bundle"])
  IN /\ SetTradeState(st1)
     /\ IF st1.thrown = NoError
          THEN /\ submitCalls[tradeId] < MaxSubmits
               /\ submitCalls' = [submitCalls EXCEPT ![tradeId] = @ + 1]
               /\ returned' = NoResult
          ELSE /\ returned' = Result("submit", "error", tradeId, NoBundle,
                                     st1.thrown, "awaiting_signature")
               /\ UNCHANGED submitCalls

\* submitSignedTransaction without the check of trade.status.
submitSignedTransaction_NoStatusCheck(tradeId) ==
  /\ IF tradeId \notin DOMAIN activeTrades
       THEN SubmitRejected(tradeId, "Trade not found", "absent")
       ELSE SubmitAccepted(tradeId)
  /\ UNCHANGED <<tradeSubscribers, readyState, sendThrows, nextTradeId,
                 execCall, relaySends>>

\* submitSignedTransaction that announces the bundle before its checks.
submitSignedTransaction_UpdatesFirst(tradeId) ==
  /\ IF tradeId \notin DOMAIN activeTrades
       THEN SubmitRejected(tradeId, "Trade not found", "absent")
       ELSE IF activeTrades[tradeId].status # "awaiting_signature"
         THEN /\ returned' = Result("submit", "error", tradeId, NoBundle,
                                    "Trade is not awaiting signature",
                                    activeTrades[tradeId].status)
              /\ SetTradeState(UpdateTrade(TradeState, tradeId,
                                           [step |-> "sending_bundle"]))
              /\ UNCHANGED submitCalls
         ELSE SubmitAccepted(tradeId)
  /\ UNCHANGED <<tradeSubscribers, readyState, sendThrows, nextTradeId,
                 execCall, relaySends>>

\* submitSignedTransaction up to its await, or to the error it throws.
submitSignedTransaction(tradeId) ==
  /\ IF tradeId \notin DOMAIN activeTrades
       THEN SubmitRejected(tradeId, "Trade not found", "absent")
       ELSE IF activeTrades[tradeId].status # "awaiting_signature"
         THEN SubmitRejected(tradeId, "Trade is not awaiting signature",
                             activeTrades[tradeId].status)
         ELSE SubmitAccepted(tradeId)
  /\ UNCHANGED <<tradeSubscribers, readyState, sendThrows, nextTradeId,
                 execCall, relaySends>>

\* _sendViaJitoGrpc settles in submitSignedTransaction.
SubmitSendBundle(t, outcome) ==
  /\ submitCalls[t] > 0
  /\ AfterSendBundle("submit", t, outcome, "awaiting_signature")
  /\ submitCalls' = [submitCalls EXCEPT ![t] = @ - 1]
  /\ UNCHANGED <<tradeSubscribers, readyState, sendThrows, nextTradeId,
                 execCall>>

\* cleanup(), run by setInterval: deletes every trade older than maxAgeMs.
\* Trades age in creation order: the ones older than maxAgeMs are the first
\* `aged` that were created.
cleanup(aged) ==
  /\ activeTrades' = [t \in {u \in DOMAIN activeTrades : u > aged} |->
                        activeTrades[t]]
  /\ statusLog' = [t \in TradeIds |->
                     IF t \in DOMAIN activeTrades /\ t <= aged
                       THEN <<>> ELSE statusLog[t]]
  /\ returned' = NoResult
  /\ wsOut' = NoMessages
  /\ UNCHANGED <<tradeSubscribers, readyState, sendThrows, nextTradeId,
                 execCall, submitCalls, relaySends>>

\* getTrade: the trade of the table, or undefined.
getTrade(tradeId) ==
  /\ returned' =
       IF tradeId \in DOMAIN activeTrades
         THEN Result("getTrade", "trade", tradeId,
                     activeTrades[tradeId].bundleId, activeTrades[tradeId].error,
                     activeTrades[tradeId].status)
         ELSE Result("getTrade", "undefined", tradeId, NoBundle, NoError,
                     "absent")
  /\ wsOut' = NoMessages
  /\ UNCHANGED <<activeTrades, tradeSubscribers, readyState, sendThrows,
                 nextTradeId, execCall, submitCalls, statusLog, relaySends>>

\* The messages a client sends on the trade status stream: text that is not
\* JSON, a ping, or an object with or without the fields action and tradeId.
TradeStatusMessages ==
  {[parses |-> FALSE, type |-> "undefined", action |-> "undefined",
    hasTradeId |-> FALSE, tradeId |-> NoTrade],
   [parses |-> TRUE, type |-> "ping", action |-> "undefined",
    hasTradeId |-> FALSE, tradeId |-> NoTrade]}
  \cup [parses : {TRUE}, type : {"undefined"},
        action : {"subscribe", "unsubscribe", "undefined"},
        hasTradeId : {FALSE}, tradeId : {NoTrade}]
  \cup [parses : {TRUE}, type : {"undefined"},
        action : {"subscribe", "unsubscribe"},
        hasTradeId : {TRUE}, tradeId : TradeIds \cup {UnknownTradeId}]

NoReply == [type |-> "none", tradeId |-> NoTrade, text |-> ""]

\* What the 'message' handler of wssTradeStatus hands to ws.send for a
\* message: parse_error from the catch block, pong, the answers of subscribe
\* and unsubscribe, and nothing for any other message.
TradeStatusReply(msg) ==
  IF ~msg.parses
    THEN [type |-> "parse_error", tradeId |-> NoTrade,
          text |-> "Invalid message format"]
  ELSE IF msg.type = "ping"
    THEN [type |-> "pong", tradeId |-> NoTrade, text |-> ""]
  ELSE IF msg.action = "subscribe" /\ msg.hasTradeId
    THEN IF msg.tradeId \in DOMAIN activeTrades
           THEN [type |-> "subscribed", tradeId |-> msg.tradeId, text |-> ""]
           ELSE [type |-> "error", tradeId |-> msg.tradeId,
                 text |-> "Trade not found"]
  ELSE IF msg.action = "unsubscribe" /\ msg.hasTradeId
    THEN [type |-> "unsubscribed", tradeId |-> msg.tradeId, text |-> ""]
  ELSE NoReply

\* The reply of a message handler as what the step hands back.
Replied(reply) ==
  Result("message", reply.type, reply.tradeId, NoBundle, reply.text, "none")


\* wssTradeStatus 'connection': a new socket.
TradeSocketConnects(ws) ==
  /\ readyState[ws] = "CLOSED"
  /\ readyState' = [readyState EXCEPT ![ws] = "OPEN"]
  /\ returned' = NoResult
  /\ wsOut' = NoMessages
  /\ UNCHANGED <<activeTrades, tradeSubscribers, sendThrows, nextTradeId,
                 execCall, submitCalls, statusLog, relaySends>>

\* ws 'message' with action subscribe for a trade of the table (any other
\* trade id is answered with an error), and TradeService.subscribe: the
\* socket gets an entry in the Map when it has none, and the id is added.
subscribe(ws, tradeId) ==
  /\ readyState[ws] = "OPEN"
  /\ ws \notin sendThrows
  /\ tradeId \in DOMAIN activeTrades
  /\ tradeSubscribers' =
       IF HasEntry(ws)
         THEN [i \in 1..Len(tradeSubscribers) |->
                 IF tradeSubscribers[i].ws = ws
                   THEN [tradeSubscribers[i] EXCEPT !.tradeIds = @ \cup {tradeId}]
                   ELSE tradeSubscribers[i]]
         ELSE Append(tradeSubscribers, [ws |-> ws, tradeIds |-> {tradeId}])
  /\ returned' = Replied([type |-> "subscribed", tradeId |-> tradeId,
                          text |-> ""])
  /\ wsOut' = NoMessages
  /\ UNCHANGED <<activeTrades, readyState, sendThrows, nextTradeId, execCall,
                 submitCalls, statusLog, relaySends>>

\* An unsubscribe that takes the branch of a call without trade id and
\* deletes the entry of the socket.
unsubscribe_DeletesEntry(ws, tradeId) ==
  /\ readyState[ws] = "OPEN"
  /\ ws \notin sendThrows
  /\ tradeSubscribers' = SelectSeq(tradeSubscribers, LAMBDA e : e.ws # ws)
  /\ returned' = Replied([type |-> "unsubscribed", tradeId |-> tradeId,
                          text |-> ""])
  /\ wsOut' = NoMessages
  /\ UNCHANGED <<activeTrades, readyState, sendThrows, nextTradeId, execCall,
                 submitCalls, statusLog, relaySends>>

\* ws 'message' with action unsubscribe, and TradeService.unsubscribe(ws,
\* tradeId): the id leaves the set of the socket when the socket has an entry.
unsubscribe(ws, tradeId) ==
  /\ readyState[ws] = "OPEN"
  /\ ws \notin sendThrows
  /\ tradeSubscribers' =
       [i \in 1..Len(tradeSubscribers) |->
          IF tradeSubscribers[i].ws = ws
            THEN [tradeSubscribers[i] EXCEPT !.tradeIds = @ \ {tradeId}]
            ELSE tradeSubscribers[i]]
  /\ returned' = Replied([type |-> "unsubscribed", tradeId |-> tradeId,
                          text |-> ""])
  /\ wsOut' = NoMessages
  /\ UNCHANGED <<activeTrades, readyState, sendThrows, nextTradeId, execCall,
                 submitCalls, statusLog, relaySends>>

\* ws 'message' of wssTradeStatus.
TradeStatusMessage(ws, msg) ==
  IF /\ msg.parses /\ msg.type # "ping" /\ msg.hasTradeId
     /\ msg.action = "subscribe" /\ msg.tradeId \in DOMAIN activeTrades
    THEN subscribe(ws, msg.tradeId)
  ELSE IF /\ msg.parses /\ msg.type # "ping" /\ msg.hasTradeId
          /\ msg.action = "unsubscribe"
    THEN unsubscribe(ws, msg.tradeId)
  ELSE /\ readyState[ws] = "OPEN"
       /\ ws \notin sendThrows
       /\ returned' = Replied(TradeStatusReply(msg))
       /\ wsOut' = NoMessages
       /\ UNCHANGED <<activeTrades, tradeSubscribers, readyState, sendThrows,
                      nextTradeId, execCall, submitCalls, statusLog,
                      relaySends>>

\* The closing handshake of a socket starts, or its connection is lost:
\* readyState leaves OPEN before the 'close' event is emitted.
TradeSocketClosing(ws) ==
  /\ readyState[ws] = "OPEN"
  /\ readyState' = [readyState EXCEPT ![ws] = "CLOSING"]
  /\ returned' = NoResult
  /\ wsOut' = NoMessages
  /\ UNCHANGED <<activeTrades, tradeSubscribers, sendThrows, nextTradeId,
                 execCall, submitCalls, statusLog, relaySends>>

\* ws 'close': TradeService.unsubscribe(ws) deletes the entry of the socket.
TradeSocketCloses(ws) ==
  /\ readyState[ws] \in {"OPEN", "CLOSING"}
  /\ readyState' = [readyState EXCEPT ![ws] = "CLOSED"]
  /\ tradeSubscribers' = SelectSeq(tradeSubscribers, LAMBDA e : e.ws # ws)
  /\ sendThrows' = sendThrows \ {ws}
  /\ returned' = NoResult
  /\ wsOut' = NoMessages
  /\ UNCHANGED <<activeTrades, nextTradeId, execCall, submitCalls,
                 statusLog, relaySends>>

\* ws.send of an open socket starts to throw.
SendBreaks(ws) ==
  /\ readyState[ws] = "OPEN"
  /\ ws \notin sendThrows
  /\ sendThrows' = sendThrows \cup {ws}
  /\ returned' = NoResult
  /\ wsOut' = NoMessages
  /\ UNCHANGED <<activeTrades, tradeSubscribers, readyState, nextTradeId,
                 execCall, submitCalls, statusLog, relaySends>>

TradeInit ==
  /\ activeTrades = [t \in {} |-> NewTrade("buy", t)]
  /\ tradeSubscribers = <<>>
  /\ readyState = [ws \in Sockets |-> "CLOSED"]
  /\ sendThrows = {}
  /\ wsOut = NoMessages
  /\ nextTradeId = 0
  /\ execCall = [t \in TradeIds |-> NoCall]
  /\ submitCalls = [t \in TradeIds |-> 0]
  /\ returned = NoResult
  /\ statusLog = [t \in TradeIds |-> <<>>]
  /\ relaySends = [t \in TradeIds |-> 0]

\* ------------------------------------------------------------------------
\* JitoGrpcManager / YellowstoneGrpcManager
\* ------------------------------------------------------------------------
\* callers of getClient() and reconnect() that can be in flight together
NumProcs == 2

maxReconnectAttempts == 5
reconnectDelay == 1000

Procs == 1..NumProcs

\* A client object is named by the caller whose _connect() call made it; a
\* connection promise by the caller whose getClient() call made it.
NoClient == 0
NoErrorYet == "null"

\* The manager modelled: the Jito one, or the Yellowstone one with or without
\* KALDERA_GRPC_URL / KALDERA_X_TOKEN set.
Managers == {"jito", "yellowstone", "yellowstone_unconfigured"}

VARIABLES
  manager,            \* which manager this is
  client,             \* this.client
  isConnecting,       \* this.isConnecting
  connectionPromise,  \* this.connectionPromise, with the state of the promise
  lastError,          \* this.lastError
  reconnectAttempts,  \* this.reconnectAttempts
  proc,               \* per caller: position in getClient() / reconnect()
  reconnectTries      \* history: getClient() calls made by reconnect() so
                      \* far, counted up to maxReconnectAttempts + 1

connVars == <<manager, client, isConnecting, connectionPromise, lastError,
              reconnectAttempts, proc, reconnectTries>>

RECURSIVE Pow(_, _)
Pow(b, e) == IF e = 0 THEN 1 ELSE b * Pow(b, e - 1)

Min(a, b) == IF a < b THEN a ELSE b

\* this.connectionPromise: null, or the promise made by `owner`, pending or
\* settled.
NoPromise == [owner |-> 0, state |-> "null", value |-> NoClient]

\* What a call handed to its caller: a client, null or an error.  tested
\* (history) tells whether the connection attempt that made the client had
\* completed when the client was handed out.
NoOutcome == [kind |-> "none", tested |-> FALSE]

\* pc: done when no call of the caller is in flight (result is then what its
\*   last call returned), backoff in the timer of reconnect(), await_own in
\*   `await this.connectionPromise` of the getClient() call that made the
\*   promise, await_join when getClient() returned a promise made by `att`.
\* phase: of the awaited promise; for await_own the await _connect() is in
\*   (import, connect, test) until it is resolved or rejected.
\* value: what the promise was resolved with.
IdleProc ==
  [op |-> "none", pc |-> "done", phase |-> "none", value |-> NoClient,
   att |-> 0, delay |-> 0, result |-> NoOutcome]

InFlight == {"import", "connect", "test"}

Settled == {"resolved", "rejected"}

\* The connection attempt that made client object c has completed.
Tested(c) == ~(proc[c].pc = "await_own" /\ proc[c].phase \in InFlight)

\* A call hands `value` to its caller: a client, or null.
Resolution(value) ==
  IF value = NoClient THEN [kind |-> "null", tested |-> FALSE]
  ELSE [kind |-> "client", tested |-> Tested(value)]

Rejection == [kind |-> "error", tested |-> FALSE]

Finished(op, result) ==
  [IdleProc EXCEPT !.op = op, !.result = result]

\* getClient() makes the promise and awaits it.  _connect() has run up to its
\* first await.  Jito: this.client is assigned at once and getTipAccounts() is
\* awaited.  Yellowstone: throws when not configured, else awaits the import
\* of the client library.
StartAttempt(p, op) ==
  LET phase == CASE manager = "jito" -> "test"
                 [] manager = "yellowstone" -> "import"
                 [] manager = "yellowstone_unconfigured" -> "rejected"
  IN /\ isConnecting' = TRUE
     /\ connectionPromise' =
          [owner |-> p,
           state |-> IF phase = "rejected" THEN "rejected" ELSE "pending",
           value |-> NoClient]
     /\ client' = IF manager = "jito" THEN p ELSE client
     /\ proc' = [proc EXCEPT ![p] =
                   [IdleProc EXCEPT !.op = op,
                                    !.pc = "await_own", !.phase = phase]]

\* getClient() that starts a connection attempt whenever there is no client,
\* without looking at isConnecting / connectionPromise.
GetClientCall_NoSharing(p, op) ==
  IF client # NoClient
    THEN /\ proc' = [proc EXCEPT ![p] =
                       Finished(op, Resolution(client))]
         /\ UNCHANGED <<client, isConnecting, connectionPromise>>
    ELSE StartAttempt(p, op)

\* getClient() up to its return or its await, called by p: directly when op
\* is getClient, from reconnect() when op is reconnect.
GetClientCall(p, op) ==
  IF client # NoClient
    THEN /\ proc' = [proc EXCEPT ![p] =
                       Finished(op, Resolution(client))]
         /\ UNCHANGED <<client, isConnecting, connectionPromise>>
    ELSE IF isConnecting /\ connectionPromise.state # "null"
      THEN /\ proc' = [proc EXCEPT ![p] =
                         [IdleProc EXCEPT !.op = op,
                            !.pc = "await_join",
                            !.att = connectionPromise.owner,
                            !.phase = connectionPromise.state,
                            !.value = connectionPromise.value]]
           /\ UNCHANGED <<client, isConnecting, connectionPromise>>
      ELSE StartAttempt(p, op)

\* A caller calls getClient().
getClient(p) ==
  /\ proc[p].pc = "done"
  /\ GetClientCall(p, "getClient")
  /\ UNCHANGED <<manager, lastError, reconnectAttempts, reconnectTries>>

\* The promise made by p is settled: p and the callers that were handed the
\* promise will resume with it.
SettlePromise(p, state, value) ==
  /\ proc' = [q \in Procs |->
       IF q = p \/ (proc[q].pc = "await_join" /\ proc[q].att = p
                    /\ proc[q].phase = "pending")
         THEN [proc[q] EXCEPT !.phase = state, !.value = value]
         ELSE proc[q]]
  /\ connectionPromise' =
       IF connectionPromise.owner = p
         THEN [connectionPromise EXCEPT !.state = state, !.value = value]
         ELSE connectionPromise

\* Yellowstone _connect: the import settles; on success the client object is
\* made and connect() is awaited.
ImportSettles(p, ok) ==
  /\ proc[p].pc = "await_own"
  /\ proc[p].phase = "import"
  /\ IF ok
       THEN /\ client' = p
            /\ proc' = [proc EXCEPT ![p].phase = "connect"]
            /\ UNCHANGED connectionPromise
       ELSE /\ client' = NoClient
            /\ SettlePromise(p, "rejected", NoClient)
  /\ UNCHANGED <<manager, isConnecting, lastError, reconnectAttempts,
                 reconnectTries>>

\* Yellowstone _connect: this.client.connect() settles; this.client.getSlot()
\* is called next, which throws when this.client is null by now.
ConnectSettles(p, ok) ==
  /\ proc[p].pc = "await_own"
  /\ proc[p].phase = "connect"
  /\ IF ok /\ client # NoClient
       THEN /\ proc' = [proc EXCEPT ![p].phase = "test"]
            /\ UNCHANGED <<client, connectionPromise>>
       ELSE /\ client' = NoClient
            /\ SettlePromise(p, "rejected", NoClient)
  /\ UNCHANGED <<manager, isConnecting, lastError, reconnectAttempts,
                 reconnectTries>>

\* The connectivity test (getTipAccounts / getSlot) settles: _connect returns
\* this.client, or sets this.client to null and throws.
TestSettles(p, ok) ==
  /\ proc[p].pc = "await_own"
  /\ proc[p].phase = "test"
  /\ IF ok
       THEN /\ SettlePromise(p, "resolved", client)
            /\ UNCHANGED client
       ELSE /\ client' = NoClient
            /\ SettlePromise(p, "rejected", NoClient)
  /\ UNCHANGED <<manager, isConnecting, lastError, reconnectAttempts,
                 reconnectTries>>

\* A reconnect() without the test of reconnectAttempts.
ReconnectCall_NoLimit(p) ==
  /\ client' = NoClient
  /\ reconnectAttempts' = reconnectAttempts + 1
  /\ proc' = [proc EXCEPT ![p] =
                [IdleProc EXCEPT !.op = "reconnect",
                   !.pc = "backoff",
                   !.delay = reconnectDelay
                               * Pow(2, reconnectAttempts' - 1)]]

\* reconnect() up to its await of the backoff timer, or to `return null`.
ReconnectCall(p) ==
  IF reconnectAttempts >= maxReconnectAttempts
    THEN /\ proc' = [proc EXCEPT ![p] =
                       Finished("reconnect", Resolution(NoClient))]
         /\ UNCHANGED <<client, reconnectAttempts>>
    ELSE /\ client' = NoClient
         /\ reconnectAttempts' = reconnectAttempts + 1
         /\ proc' = [proc EXCEPT ![p] =
                       [IdleProc EXCEPT !.op = "reconnect",
                          !.pc = "backoff",
                          !.delay = reconnectDelay
                                      * Pow(2, reconnectAttempts' - 1)]]

\* A caller calls reconnect().
reconnect(p) ==
  /\ proc[p].pc = "done"
  /\ ReconnectCall(p)
  /\ UNCHANGED <<manager, isConnecting, connectionPromise, lastError,
                 reconnectTries>>

\* The backoff timer of reconnect() fires: getClient() is called.
BackoffExpires(p) ==
  /\ proc[p].pc = "backoff"
  /\ GetClientCall(p, "reconnect")
  /\ reconnectTries' = Min(reconnectTries + 1, maxReconnectAttempts + 1)
  /\ UNCHANGED <<manager, lastError, reconnectAttempts>>

\* The caller that made the promise resumes after `await
\* this.connectionPromise`.  getClient() returns the client or throws;
\* reconnect() returns what getClient() returned, or calls itself again.
OwnerResumes(p) ==
  /\ proc[p].pc = "await_own"
  /\ proc[p].phase \in Settled
  /\ isConnecting' = FALSE
  /\ IF proc[p].phase = "resolved"
       THEN /\ reconnectAttempts' = 0
            /\ proc' = [proc EXCEPT ![p] =
                 Finished(proc[p].op, Resolution(proc[p].value))]
            /\ UNCHANGED <<client, lastError>>
       ELSE /\ lastError' = "connection error"
            /\ IF proc[p].op = "reconnect"
                 THEN ReconnectCall(p)
                 ELSE /\ proc' = [proc EXCEPT ![p] =
                           Finished(proc[p].op, Rejection)]
                      /\ UNCHANGED <<client, reconnectAttempts>>
  /\ UNCHANGED <<manager, connectionPromise, reconnectTries>>

\* A caller that was handed the promise of an attempt in progress resumes.
JoinerResumes(p) ==
  /\ proc[p].pc = "await_join"
  /\ proc[p].phase \in Settled
  /\ IF proc[p].phase = "resolved"
       THEN /\ proc' = [proc EXCEPT ![p] =
                 Finished(proc[p].op, Resolution(proc[p].value))]
            /\ UNCHANGED <<client, reconnectAttempts>>
       ELSE IF proc[p].op = "reconnect"
         THEN ReconnectCall(p)
         ELSE /\ proc' = [proc EXCEPT ![p] =
                   Finished(proc[p].op, Rejection)]
              /\ UNCHANGED <<client, reconnectAttempts>>
  /\ UNCHANGED <<manager, isConnecting, connectionPromise, lastError,
                 reconnectTries>>

\* Who issues operations on the Yellowstone manager: the HTTP routes
\* (GET /grpc/blockhash, /grpc/slot, ...), executeBuy / executeSell, the
\* account cache and the subscribe handlers of the WebSockets.
OperationCallers == {"route", "orchestrator", "cache", "ws_subscribe"}

\* An operation of `issuer` fails: its getClient() threw, or it returned a
\* client and the call on the client (getLatestBlockhash, subscribe, ...)
\* rejects.  The catch block of the issuer runs: a route calls reconnect()
\* and answers 500; executeBuy / executeSell go on to the RPC blockhash, the
\* account cache to the RPC fetch, a subscribe handler sends subscribe_error.
OperationFails(p, issuer) ==
  /\ proc[p].pc = "done"
  /\ proc[p].op = "getClient"
  /\ proc[p].result.kind \in {"client", "error"}
  /\ IF issuer = "route"
       THEN ReconnectCall(p)
       ELSE /\ proc' = [proc EXCEPT ![p] = Finished(issuer, Rejection)]
            /\ UNCHANGED <<client, reconnectAttempts>>
  /\ UNCHANGED <<manager, isConnecting, connectionPromise, lastError,
                 reconnectTries>>

ConnInit(m) ==
  /\ manager = m
  /\ client = NoClient
  /\ isConnecting = FALSE
  /\ connectionPromise = NoPromise
  /\ lastError = NoErrorYet
  /\ reconnectAttempts = 0
  /\ proc = [p \in Procs |-> IdleProc]
  /\ reconnectTries = 0

\* ------------------------------------------------------------------------
\* AccountCacheManager
\* ------------------------------------------------------------------------
\* callers of getAccount() that can be in flight together
NumCallers == 2
maxCacheSize == 1000
cacheTTL == 5000
\* steps of the clock per cacheTTL
TicksPerTTL == 2
TickMs == cacheTTL \div TicksPerTTL
\* the timer of _fetchAccountViaSubscription, in ms
FetchTimeout == 10000

Callers == 1..NumCallers
Addrs == {"addrA", "addrB"}

VARIABLES
  rpcConfigured,    \* RPC_URL is set
  accountCache,     \* keys of this.accountCache, oldest updatedAt first
  entryAge,         \* per address: Date.now() - updatedAt of its entry, in ms,
                    \* counted up to this.cacheTTL
  pendingRequests,  \* this.pendingRequests, with the state of each promise
  caller,           \* per caller: position in getAccount()
  delivered         \* history: the fetch result last handed to a caller, and
                    \* to how many callers it was handed since a fetch was
                    \* last started

cacheVars == <<rpcConfigured, accountCache, entryAge, pendingRequests,
               caller, delivered>>

\* insertions into the cache that the eviction check follows
MaxInsertions == 5

VARIABLES
  insertions        \* history: calls of _cacheAccount so far

evictionVars == <<insertions>>

\* What a fetch hands to the callers of getAccount().  rpcQueried (history)
\* tells whether the fetch sent its request to the RPC provider.
FetchResult(kind, source, rpcQueried, error) ==
  [kind |-> kind, source |-> source, rpcQueried |-> rpcQueried,
   error |-> error]

NoFetchResult == FetchResult("none", "none", FALSE, NoError)

\* An entry of this.pendingRequests: absent, or the promise made for `owner`.
NoPending == [owner |-> 0, state |-> "none", value |-> NoFetchResult]

\* pc: done, await_own in `await promise` of the getAccount() call that made
\*   the promise, await_join when getAccount() returned a pending request.
\* stage: of the awaited promise; for await_own the await the fetch is in
\*   (getClient, subscribe, stream, rpc) until it is resolved or rejected.
\* timer: the delay of the armed fetch timer, 0 when none is armed.
IdleCaller ==
  [pubkey |-> "none", pc |-> "done", stage |-> "none", att |-> 0,
   timer |-> 0, rpcQueried |-> FALSE, value |-> NoFetchResult]

FetchStages == {"getClient", "subscribe", "stream", "rpc"}

SeqRemove(seq, x) == SelectSeq(seq, LAMBDA y : y # x)

\* _cacheAccount: evicts the oldest entry when the cache is full, then sets
\* the entry of pubkey, whose updatedAt is now.
CacheAccount(cache, pubkey) ==
  LET evicted == IF Len(cache) >= maxCacheSize THEN Tail(cache) ELSE cache
  IN Append(SeqRemove(evicted, pubkey), pubkey)

CacheKeys(cache) == {cache[i] : i \in 1..Len(cache)}

\* getAccount: cached && Date.now() - cached.updatedAt < this.cacheTTL
freshEntries ==
  {pubkey \in CacheKeys(accountCache) : entryAge[pubkey] < cacheTTL}

NothingDelivered == [result |-> NoFetchResult, calls |-> 0]

\* A caller is handed the result of a fetch.
Deliver(result) ==
  delivered' =
    IF delivered.result = result
      THEN [delivered EXCEPT !.calls = Min(@ + 1, NumCallers)]
      ELSE [result |-> result, calls |-> 1]

\* A caller is handed the entry of the cache: no fetch is shared.
DeliverCached ==
  delivered' = [result |-> FetchResult("account", "cache", FALSE, NoError),
                calls |-> 1]

\* getAccount() makes the promise of a fetch, stores it as the pending
\* request of pubkey and awaits it; _fetchAccountViaSubscription has run up
\* to `await yellowstoneGrpc.getClient()`.
StartFetch(c, pubkey) ==
  /\ pendingRequests' = [pendingRequests EXCEPT ![pubkey] =
       [owner |-> c, state |-> "pending", value |-> NoFetchResult]]
  /\ caller' = [caller EXCEPT ![c] =
       [IdleCaller EXCEPT !.pubkey = pubkey, !.pc = "await_own",
                          !.stage = "getClient"]]
  /\ delivered' = NothingDelivered

\* getAccount() that fetches whenever the cache has no fresh entry, without
\* looking at this.pendingRequests.
getAccount_NoCoalescing(c, pubkey) ==
  /\ caller[c].pc = "done"
  /\ IF pubkey \in freshEntries
       THEN /\ DeliverCached
            /\ UNCHANGED <<pendingRequests, caller>>
       ELSE StartFetch(c, pubkey)
  /\ UNCHANGED <<rpcConfigured, accountCache, entryAge>>

\* getAccount() that returns the cached entry whatever its age.
getAccount_NoExpiry(c, pubkey) ==
  /\ caller[c].pc = "done"
  /\ IF pubkey \in CacheKeys(accountCache)
       THEN /\ DeliverCached
            /\ UNCHANGED <<pendingRequests, caller>>
       ELSE IF pendingRequests[pubkey] # NoPending
         THEN /\ caller' = [caller EXCEPT ![c] =
                   [IdleCaller EXCEPT !.pubkey = pubkey, !.pc = "await_join",
                      !.att = pendingRequests[pubkey].owner,
                      !.stage = pendingRequests[pubkey].state,
                      !.value = pendingRequests[pubkey].value]]
              /\ UNCHANGED <<pendingRequests, delivered>>
         ELSE StartFetch(c, pubkey)
  /\ UNCHANGED <<rpcConfigured, accountCache, entryAge>>

\* getAccount(pubkey) up to its return or its await: the cached entry is
\* returned when it is fresh, else the pending request of the address, else a
\* fetch is started.
getAccount(c, pubkey) ==
  /\ caller[c].pc = "done"
  /\ IF pubkey \in freshEntries
       THEN /\ DeliverCached
            /\ UNCHANGED <<pendingRequests, caller>>
       ELSE IF pendingRequests[pubkey] # NoPending
         THEN /\ caller' = [caller EXCEPT ![c] =
                   [IdleCaller EXCEPT !.pubkey = pubkey, !.pc = "await_join",
                      !.att = pendingRequests[pubkey].owner,
                      !.stage = pendingRequests[pubkey].state,
                      !.value = pendingRequests[pubkey].value]]
              /\ UNCHANGED <<pendingRequests, delivered>>
         ELSE StartFetch(c, pubkey)
  /\ UNCHANGED <<rpcConfigured, accountCache, entryAge>>

\* The promise of c's fetch is settled: c and the callers that were handed
\* the promise will resume with it.
SettleFetch(c, state, value) ==
  LET pubkey == caller[c].pubkey
  IN /\ caller' = [d \in Callers |->
          IF d = c
            THEN [caller[d] EXCEPT !.stage = state, !.value = value,
                                   !.timer = 0]
            ELSE IF /\ caller[d].pc = "await_join"
                    /\ caller[d].att = c
                    /\ caller[d].stage = "pending"
              THEN [caller[d] EXCEPT !.stage = state, !.value = value]
              ELSE caller[d]]
     /\ pendingRequests' =
          IF pendingRequests[pubkey].owner = c
            THEN [pendingRequests EXCEPT ![pubkey] =
                    [@ EXCEPT !.state = state, !.value = value]]
            ELSE pendingRequests

\* The catch of _fetchAccountViaSubscription: _fetchAccountViaRpc up to its
\* throw or its await of fetch().
FetchViaRpcStart(c) ==
  IF rpcConfigured
    THEN /\ caller' = [caller EXCEPT ![c].stage = "rpc",
                                     ![c].rpcQueried = TRUE]
         /\ UNCHANGED pendingRequests
    ELSE SettleFetch(c, "rejected",
           FetchResult("error", "none", FALSE,
                       "RPC not configured"))

\* `await yellowstoneGrpc.getClient()` settles.
GetClientSettles(c, ok) ==
  /\ caller[c].pc = "await_own"
  /\ caller[c].stage = "getClient"
  /\ IF ok
       THEN /\ caller' = [caller EXCEPT ![c].stage = "subscribe"]
            /\ UNCHANGED pendingRequests
       ELSE FetchViaRpcStart(c)
  /\ UNCHANGED <<rpcConfigured, accountCache, entryAge, delivered>>

\* `await client.subscribe()` settles; on success the promise of the snapshot
\* is made and returned: the timer is armed, the handlers are set and the
\* request is written to the stream.
SubscribeSettles(c, ok) ==
  /\ caller[c].pc = "await_own"
  /\ caller[c].stage = "subscribe"
  /\ IF ok
       THEN /\ caller' = [caller EXCEPT ![c].stage = "stream",
                                        ![c].timer = FetchTimeout]
            /\ UNCHANGED pendingRequests
       ELSE FetchViaRpcStart(c)
  /\ UNCHANGED <<rpcConfigured, accountCache, entryAge, delivered>>

\* The stream delivers the account: it is cached, the timer is cleared, the
\* stream is destroyed and the promise resolved.
StreamData(c) ==
  /\ caller[c].pc = "await_own"
  /\ caller[c].stage = "stream"
  /\ accountCache' = CacheAccount(accountCache, caller[c].pubkey)
  /\ entryAge' = [entryAge EXCEPT ![caller[c].pubkey] = 0]
  /\ SettleFetch(c, "resolved",
       FetchResult("account", "grpc", caller[c].rpcQueried,
                   NoError))
  /\ UNCHANGED <<rpcConfigured, delivered>>

\* The stream emits 'error': the timer is cleared and the promise rejected.
StreamError(c) ==
  /\ caller[c].pc = "await_own"
  /\ caller[c].stage = "stream"
  /\ SettleFetch(c, "rejected",
       FetchResult("error", "none", caller[c].rpcQueried,
                   "stream error"))
  /\ UNCHANGED <<rpcConfigured, accountCache, entryAge, delivered>>

\* The fetch timer fires: the stream is destroyed and the promise rejected.
StreamTimeout(c) ==
  /\ caller[c].pc = "await_own"
  /\ caller[c].stage = "stream"
  /\ caller[c].timer = FetchTimeout
  /\ SettleFetch(c, "rejected",
       FetchResult("error", "none", caller[c].rpcQueried,
                   "Account fetch timeout"))
  /\ UNCHANGED <<rpcConfigured, accountCache, entryAge, delivered>>

RpcOutcomes == {"value", "no_value", "error"}

\* _fetchAccountViaRpc from its await of fetch() on: the request fails or
\* answers an error, answers no value, or answers the account.
RpcSettles(c, outcome) ==
  /\ caller[c].pc = "await_own"
  /\ caller[c].stage = "rpc"
  /\ CASE outcome = "value" ->
            /\ accountCache' = CacheAccount(accountCache, caller[c].pubkey)
            /\ entryAge' = [entryAge EXCEPT ![caller[c].pubkey] = 0]
            /\ SettleFetch(c, "resolved",
                 FetchResult("account", "rpc_fallback", TRUE, NoError))
       [] outcome = "no_value" ->
            /\ SettleFetch(c, "resolved",
                 FetchResult("no_account", "rpc", TRUE,
                             NoError))
            /\ UNCHANGED <<accountCache, entryAge>>
       [] outcome = "error" ->
            /\ SettleFetch(c, "rejected",
                 FetchResult("error", "none", TRUE,
                             "rpc error"))
            /\ UNCHANGED <<accountCache, entryAge>>
  /\ UNCHANGED <<rpcConfigured, delivered>>

\* A getAccount() that deletes the pending request only after a fetch that
\* succeeded.
FetchOwnerResumes_NoFinally(c) ==
  /\ caller[c].pc = "await_own"
  /\ caller[c].stage \in Settled
  /\ pendingRequests' =
       IF caller[c].stage = "resolved"
         THEN [pendingRequests EXCEPT ![caller[c].pubkey] = NoPending]
         ELSE pendingRequests
  /\ caller' = [caller EXCEPT ![c] = IdleCaller]
  /\ Deliver(caller[c].value)
  /\ UNCHANGED <<rpcConfigured, accountCache, entryAge>>

\* The caller that made the promise resumes after `await promise`: the
\* finally block deletes the pending request of the address.
FetchOwnerResumes(c) ==
  /\ caller[c].pc = "await_own"
  /\ caller[c].stage \in Settled
  /\ pendingRequests' = [pendingRequests EXCEPT ![caller[c].pubkey] = NoPending]
  /\ caller' = [caller EXCEPT ![c] = IdleCaller]
  /\ Deliver(caller[c].value)
  /\ UNCHANGED <<rpcConfigured, accountCache, entryAge>>

\* A caller that was handed a pending request resumes.
FetchJoinerResumes(c) ==
  /\ caller[c].pc = "await_join"
  /\ caller[c].stage \in Settled
  /\ caller' = [caller EXCEPT ![c] = IdleCaller]
  /\ Deliver(caller[c].value)
  /\ UNCHANGED <<rpcConfigured, accountCache, entryAge, pendingRequests>>

\* Time passes: every entry is TickMs older.
ClockTick ==
  /\ \E pubkey \in CacheKeys(accountCache) : entryAge[pubkey] < cacheTTL
  /\ entryAge' = [pubkey \in Addrs |->
                    IF pubkey \in CacheKeys(accountCache)
                      THEN Min(entryAge[pubkey] + TickMs, cacheTTL)
                      ELSE entryAge[pubkey]]
  /\ UNCHANGED <<rpcConfigured, accountCache, pendingRequests, caller,
                 delivered>>

\* A stream or an RPC answer delivers the account of pubkey and
\* _cacheAccount(pubkey, data) stores it.
CacheInsert(pubkey) ==
  /\ insertions < MaxInsertions
  /\ insertions' = insertions + 1
  /\ accountCache' = CacheAccount(accountCache, pubkey)
  /\ entryAge' = [a \in Addrs |-> IF a = pubkey THEN 0 ELSE entryAge[a]]
  /\ UNCHANGED <<rpcConfigured, pendingRequests, caller, delivered>>

\* The cache after `n` other accounts were fetched, oldest first.
Prefilled(n) == [i \in 1..n |-> ToString(i)]

EvictionInit == insertions = 0

CacheInitWith(configured, cache) ==
  /\ rpcConfigured = configured
  /\ accountCache = cache
  /\ entryAge = [pubkey \in Addrs |-> 0]
  /\ pendingRequests = [a \in Addrs |-> NoPending]
  /\ caller = [c \in Callers |-> IdleCaller]
  /\ delivered = NothingDelivered

CacheInit(configured) == CacheInitWith(configured, <<>>)

\* ------------------------------------------------------------------------
\* WebSocket subscription handlers
\* ------------------------------------------------------------------------
\* Bounds.
NumWsClients == 2
MaxStreams == 2
NumBundleClients == 3

WsClients == 1..NumWsClients
BundleClients == 1..NumBundleClients
StreamKinds == {"transactions", "accounts"}
NoStream == 0

VARIABLES
  ysConfigured,     \* yellowstoneGrpc.getStatus().configured
  wsConn,           \* per downstream socket of /grpc/subscribe/*: its state,
                    \* the handler's `subscribed` flag and its message
                    \* handlers suspended at an await
  subscribers,      \* yellowstoneGrpc.subscribers: socket -> its stream
  openStreams,      \* upstream streams opened for a socket and not destroyed
  bundleConn,       \* per downstream socket of the bundle results path
  bundleResultSubscribers,  \* jitoGrpc.bundleResultSubscribers (its keys)
  bundleSubscriptions       \* onBundleResult subscriptions not cancelled

subsVars == <<ysConfigured, wsConn, subscribers, openStreams>>
bundleResultVars == <<bundleConn, bundleResultSubscribers, bundleSubscriptions>>

\* A socket no client has opened yet.  streams counts the upstream streams
\* opened for the socket so far; they are numbered 1, 2, ...
NoConn ==
  [state |-> "none", kind |-> "none", subscribed |-> FALSE,
   importing |-> 0, subscribing |-> 0, streams |-> 0]

\* Message handlers of the socket suspended at one of their two awaits.
SetupsInFlight(ws) == wsConn[ws].importing + wsConn[ws].subscribing

\* YellowstoneGrpcManager.removeSubscriber(ws): destroys the stream of the
\* registry entry, if there is one, and deletes the entry.
removeSubscriber(ws) ==
  /\ openStreams' = [openStreams EXCEPT ![ws] = @ \ {subscribers[ws]}]
  /\ subscribers' = [subscribers EXCEPT ![ws] = NoStream]

\* wssTransactions / wssAccounts 'connection'.
SubscriberConnects(ws, kind) ==
  /\ wsConn[ws].state = "none"
  /\ wsConn' = [wsConn EXCEPT ![ws] =
       [@ EXCEPT !.kind = kind,
                 !.state = IF ysConfigured THEN "open" ELSE "closed"]]
  /\ UNCHANGED <<ysConfigured, subscribers, openStreams>>

\* The test of the filter of a subscribe message; filterOk: the filter names
\* at least one account (for account updates: an account or an owner).  Only
\* the accounts handler has one: `!filter.account?.length &&
\* !filter.owner?.length` is answered with a validation_error.
SubscribeRejected(ws, filterOk) == wsConn[ws].kind = "accounts" /\ ~filterOk

\* ws 'message' with action 'subscribe': ignored once `subscribed` is set;
\* a rejected filter is answered with an error and the handler returns;
\* otherwise the handler suspends at `await import(...)`.
SubscribeMessage(ws, filterOk) ==
  /\ wsConn[ws].state = "open"
  /\ wsConn[ws].streams + SetupsInFlight(ws) < MaxStreams
  /\ ~wsConn[ws].subscribed
  /\ wsConn' = IF SubscribeRejected(ws, filterOk)
                 THEN wsConn
                 ELSE [wsConn EXCEPT ![ws].importing = @ + 1]
  /\ UNCHANGED <<ysConfigured, subscribers, openStreams>>

\* `await import(...)` settles; the handler calls yellowstoneGrpc.subscribe()
\* and suspends again.
SubscribeImportSettles(ws) ==
  /\ wsConn[ws].importing > 0
  /\ wsConn' = [wsConn EXCEPT ![ws].importing = @ - 1,
                              ![ws].subscribing = @ + 1]
  /\ UNCHANGED <<ysConfigured, subscribers, openStreams>>

\* `await yellowstoneGrpc.subscribe()` settles.  With a stream the handler
\* writes the request, sets `subscribed` and stores the stream in the
\* registry, whatever the state of the socket; a rejection is reported to the
\* socket and changes nothing.
SubscribeStreamSettles(ws, ok) ==
  /\ wsConn[ws].subscribing > 0
  /\ IF ok
       THEN LET stream == wsConn[ws].streams + 1 IN
            /\ wsConn' = [wsConn EXCEPT ![ws].subscribing = @ - 1,
                                        ![ws].streams = stream,
                                        ![ws].subscribed = TRUE]
            /\ openStreams' = [openStreams EXCEPT ![ws] = @ \cup {stream}]
            /\ subscribers' = [subscribers EXCEPT ![ws] = stream]
       ELSE /\ wsConn' = [wsConn EXCEPT ![ws].subscribing = @ - 1]
            /\ UNCHANGED <<subscribers, openStreams>>
  /\ UNCHANGED ysConfigured

\* ws 'message' with action 'unsubscribe', acted on when `subscribed` is
\* set; without it the handler does nothing.
UnsubscribeMessage(ws) ==
  /\ wsConn[ws].state = "open"
  /\ IF wsConn[ws].subscribed
       THEN /\ removeSubscriber(ws)
            /\ wsConn' = [wsConn EXCEPT ![ws].subscribed = FALSE]
       ELSE UNCHANGED <<wsConn, subscribers, openStreams>>
  /\ UNCHANGED ysConfigured

\* ws 'close'.
SubscriberCloses(ws) ==
  /\ wsConn[ws].state = "open"
  /\ removeSubscriber(ws)
  /\ wsConn' = [wsConn EXCEPT ![ws].state = "closed"]
  /\ UNCHANGED ysConfigured

SubsInit(configured) ==
  /\ ysConfigured = configured
  /\ wsConn = [ws \in WsClients |-> NoConn]
  /\ subscribers = [ws \in WsClients |-> NoStream]
  /\ openStreams = [ws \in WsClients |-> {}]

\* --- bundle results ------------------------------------------------------
\* pc: "await_client" while the connection handler awaits
\* jitoGrpc.getClient(), "listening" once it has registered its 'close'
\* listener, "returned" when it left through its catch block.
NoBundleConn == [state |-> "none", pc |-> "none"]

\* wssBundleResults 'connection': the handler suspends at getClient().
BundleSubscriberConnects(ws) ==
  /\ bundleConn[ws].state = "none"
  /\ bundleConn' = [bundleConn EXCEPT ![ws] =
                      [state |-> "open", pc |-> "await_client"]]
  /\ UNCHANGED <<bundleResultSubscribers, bundleSubscriptions>>

\* `await jitoGrpc.getClient()` settles.  With a client the handler
\* subscribes, stores the cancel function and registers the 'close'
\* listener; without one (a rejection, or null, on which onBundleResult
\* throws) it reports the error and closes the socket if it is open.
BundleClientSettles(ws, ok) ==
  /\ bundleConn[ws].pc = "await_client"
  /\ IF ok
       THEN /\ bundleSubscriptions' = bundleSubscriptions \cup {ws}
            /\ bundleResultSubscribers' = bundleResultSubscribers \cup {ws}
            /\ bundleConn' = [bundleConn EXCEPT ![ws].pc = "listening"]
       ELSE /\ bundleConn' = [bundleConn EXCEPT ![ws] =
                                [state |-> "closed", pc |-> "returned"]]
            /\ UNCHANGED <<bundleResultSubscribers, bundleSubscriptions>>

\* The socket closes.  Only a registered 'close' listener runs: it cancels the
\* subscription and deletes the registry entry.
BundleSubscriberCloses(ws) ==
  /\ bundleConn[ws].state = "open"
  /\ bundleConn' = [bundleConn EXCEPT ![ws].state = "closed"]
  /\ IF bundleConn[ws].pc = "listening"
       THEN /\ bundleSubscriptions' = bundleSubscriptions \ {ws}
            /\ bundleResultSubscribers' = bundleResultSubscribers \ {ws}
       ELSE UNCHANGED <<bundleResultSubscribers, bundleSubscriptions>>

BundleResultsInit ==
  /\ bundleConn = [ws \in BundleClients |-> NoBundleConn]
  /\ bundleResultSubscribers = {}
  /\ bundleSubscriptions = {}

\* ------------------------------------------------------------------------
\* Bundle relay routes: POST /jito/bundle and POST /grpc/jito/bundle
\* ------------------------------------------------------------------------
JITO_PARALLEL_SEND == 4
MaxBundleTransactions == 5

\* urls = JITO_BUNDLE_ENDPOINTS.slice(0, JITO_PARALLEL_SEND), by index.
Endpoints == 1..JITO_PARALLEL_SEND
NoEndpoint == 0
\* A request body without a `transactions` array.
NoTransactions == -1
\* The lengths of `transactions` a client sends: the values on both sides of
\* the two limits.
BundleSizes == {0, 1, MaxBundleTransactions, MaxBundleTransactions + 1}

VARIABLES
  httpBundle,    \* the POST /jito/bundle request being served
  fetches,       \* per endpoint, the state of its fetch(url).then(json)
  settled,       \* the endpoints whose fetch has settled, in that order
  grpcBundle     \* the POST /grpc/jito/bundle request being served

relayVars == <<httpBundle, fetches, settled, grpcBundle>>

\* res.status(status).json(...): kind is the sort of body, from the endpoint
\* whose response or error the body carries.
Response(status, kind, from) == [status |-> status, kind |-> kind, from |-> from]

NoResponse == Response(0, "none", NoEndpoint)

NoRequest == [size |-> NoTransactions, pc |-> "idle", response |-> NoResponse]

\* The first element of an array that satisfies a test, as Array.find and
\* the for loop of the route do; NoEndpoint when there is none.
First(S) == IF S = {} THEN NoEndpoint ELSE CHOOSE e \in S : \A f \in S : e <= f

\* The response of POST /jito/bundle once Promise.allSettled has resolved
\* with the outcomes `results`.
FanOutResponse(results) ==
  LET accepted == {e \in Endpoints : results[e] = "result"}
      fulfilled == {e \in Endpoints : results[e] \in {"result", "upstream_error"}}
      rejected == {e \in Endpoints : results[e] = "rejected"}
  IN  IF accepted # {} THEN Response(200, "result", First(accepted))
      ELSE IF fulfilled # {} THEN Response(200, "upstream_error", First(fulfilled))
      ELSE Response(503, "rejected", First(rejected))

\* POST /jito/bundle arrives: validation, then one fetch per endpoint and
\* the await of Promise.allSettled.
HttpBundleRequest(size) ==
  /\ httpBundle.pc \in {"idle", "responded"}
  /\ settled' = <<>>
  /\ IF size = NoTransactions \/ size > MaxBundleTransactions
       THEN /\ httpBundle' = [size |-> size, pc |-> "responded",
                              response |-> Response(400, "validation", NoEndpoint)]
            /\ fetches' = [e \in Endpoints |-> "none"]
       ELSE /\ httpBundle' = [size |-> size, pc |-> "await_all",
                              response |-> NoResponse]
            /\ fetches' = [e \in Endpoints |-> "pending"]
  /\ UNCHANGED grpcBundle

FetchOutcomes == {"result", "upstream_error", "rejected"}

\* The fetch of one endpoint settles.  When it is the last one,
\* Promise.allSettled resolves and the route answers.
FetchSettles(e, outcome) ==
  /\ httpBundle.pc = "await_all"
  /\ fetches[e] = "pending"
  /\ fetches' = [fetches EXCEPT ![e] = outcome]
  /\ settled' = Append(settled, e)
  /\ httpBundle' =
       IF \A f \in Endpoints \ {e} : fetches[f] # "pending"
         THEN [httpBundle EXCEPT !.pc = "responded",
                                 !.response = FanOutResponse(fetches')]
         ELSE httpBundle
  /\ UNCHANGED grpcBundle

\* POST /grpc/jito/bundle arrives: validation, then await getClient().
GrpcBundleRequest(size) ==
  /\ grpcBundle.pc \in {"idle", "responded"}
  /\ grpcBundle' =
       IF size = NoTransactions \/ size = 0 \/ size > MaxBundleTransactions
         THEN [size |-> size, pc |-> "responded",
               response |-> Response(400, "validation", NoEndpoint)]
         ELSE [size |-> size, pc |-> "await_client", response |-> NoResponse]
  /\ UNCHANGED <<httpBundle, fetches, settled>>

\* `await jitoGrpc.getClient()` settles.  Without a client the route answers
\* 500 from its catch block; a transaction that does not deserialize is
\* answered 400; otherwise client.sendBundle(bundle) is called.
GrpcClientSettles(ok, deserializes) ==
  /\ grpcBundle.pc = "await_client"
  /\ grpcBundle' =
       IF ~ok THEN [grpcBundle EXCEPT !.pc = "responded",
                      !.response = Response(500, "error", NoEndpoint)]
       ELSE IF ~deserializes
         THEN [grpcBundle EXCEPT !.pc = "responded",
                 !.response = Response(400, "deserialize", NoEndpoint)]
       ELSE [grpcBundle EXCEPT !.pc = "await_send"]
  /\ UNCHANGED <<httpBundle, fetches, settled>>

\* `await client.sendBundle(bundle)` settles: result.ok, a result that is
\* not ok, or a rejection.
GrpcSendSettles(outcome) ==
  /\ grpcBundle.pc = "await_send"
  /\ grpcBundle' = [grpcBundle EXCEPT !.pc = "responded",
       !.response = IF outcome = "result"
                      THEN Response(200, "result", NoEndpoint)
                      ELSE Response(500, outcome, NoEndpoint)]
  /\ UNCHANGED <<httpBundle, fetches, settled>>

RelayInit ==
  /\ httpBundle = NoRequest
  /\ fetches = [e \in Endpoints |-> "none"]
  /\ settled = <<>>
  /\ grpcBundle = NoRequest

\* ------------------------------------------------------------------------
\* POST /grpc/accounts and AccountCacheManager.getMultipleAccounts
\* ------------------------------------------------------------------------
\* `pubkeys.length > 100` is answered with status 400
MaxAccountsPerRequest == 100

\* The array of n addresses addrA, addrB, addrA, ...
Alternating(n) == [i \in 1..n |-> IF i % 2 = 1 THEN "addrA" ELSE "addrB"]

\* Request bodies: no pubkeys array, or an array of addresses, up to one
\* address more than a request may have.
AccountsRequests ==
  {[isArray |-> FALSE, pubkeys |-> <<>>]}
  \cup {[isArray |-> TRUE, pubkeys |-> pubkeys] :
          pubkeys \in {<<>>, <<"addrA">>, <<"addrA", "addrB">>,
                       <<"addrB", "addrA">>, <<"addrA", "addrA">>,
                       Alternating(MaxAccountsPerRequest),
                       Alternating(MaxAccountsPerRequest + 1)}}

VARIABLES
  batch,            \* the getMultipleAccounts() call in flight: its pubkeys,
                    \* its locals results and toFetch, and the state of the
                    \* getAccount() promise of each address of toFetch
  accountsResponse  \* the response POST /grpc/accounts sent last, with the
                    \* pubkeys of its request (history)

batchVars == <<batch, accountsResponse>>

\* An entry of the result list: { pubkey, ...account, source } or
\* { pubkey, data: null, error }.
AccountEntry(pubkey, kind, source, error) ==
  [pubkey |-> pubkey, kind |-> kind, source |-> source, error |-> error]

NoBatch ==
  [pc |-> "idle", pubkeys |-> <<>>, results |-> <<>>, toFetch |-> <<>>,
   fetched |-> [a \in Addrs |-> "none"]]

AccountsResponse(status, error, accounts, request) ==
  [status |-> status, error |-> error, accounts |-> accounts,
   count |-> Len(accounts),
   cached |-> Cardinality({i \in 1..Len(accounts) :
                             accounts[i].source = "cache"}),
   request |-> request]

NoAccountsResponse == AccountsResponse(0, NoError, <<>>, <<>>)

\* What the promise of getAccount(pubkey) settles with: the snapshot of the
\* stream, the answer of the RPC provider with or without a value, or an
\* error.
GetAccountOutcomes == {"grpc", "rpc_fallback", "rpc", "rejected"}

\* The first loop of getMultipleAccounts: the entries of the addresses with
\* a fresh cache entry, in the order of pubkeys.
CacheHits(pubkeys) ==
  LET hits == SelectSeq(pubkeys, LAMBDA pubkey : pubkey \in freshEntries)
  IN [i \in 1..Len(hits) |->
        AccountEntry(hits[i], "account", "cache", NoError)]

\* The other addresses, in the order of pubkeys.
ToFetch(pubkeys) ==
  SelectSeq(pubkeys, LAMBDA pubkey : pubkey \notin freshEntries)

\* The second loop: one entry per address of toFetch, from the settled
\* promise of its getAccount() call.
FetchedEntries(toFetch, fetched) ==
  [i \in 1..Len(toFetch) |->
     CASE fetched[toFetch[i]] = "rejected" ->
            AccountEntry(toFetch[i], "error", "undefined", "fetch failed")
       [] fetched[toFetch[i]] = "rpc" ->
            AccountEntry(toFetch[i], "no_account", "rpc", NoError)
       [] OTHER ->
            AccountEntry(toFetch[i], "account", fetched[toFetch[i]], NoError)]

\* getMultipleAccounts(pubkeys) up to `await Promise.allSettled(...)`, or to
\* its return when every address is a cache hit.  Each getAccount() call of
\* toFetch is represented by the promise of its address.
getMultipleAccounts(pubkeys) ==
  LET results == CacheHits(pubkeys)
      toFetch == ToFetch(pubkeys)
  IN IF toFetch = <<>>
       THEN /\ accountsResponse' =
                 AccountsResponse(200, NoError, results, pubkeys)
            /\ UNCHANGED batch
       ELSE /\ batch' = [pc |-> "await", pubkeys |-> pubkeys,
                         results |-> results, toFetch |-> toFetch,
                         fetched |-> [a \in Addrs |->
                           IF \E i \in 1..Len(toFetch) : toFetch[i] = a
                             THEN "pending" ELSE "none"]]
            /\ accountsResponse' = NoAccountsResponse

\* The route without its test of pubkeys.length.
PostAccounts_NoLimit(body) ==
  /\ batch.pc = "idle"
  /\ IF ~body.isArray
       THEN /\ accountsResponse' =
                 AccountsResponse(400, "pubkeys array required", <<>>,
                                  body.pubkeys)
            /\ UNCHANGED batch
       ELSE getMultipleAccounts(body.pubkeys)
  /\ UNCHANGED cacheVars

\* POST /grpc/accounts up to its response or to the await of
\* getMultipleAccounts.
PostAccounts(body) ==
  /\ batch.pc = "idle"
  /\ IF ~body.isArray
       THEN /\ accountsResponse' =
                 AccountsResponse(400, "pubkeys array required", <<>>,
                                  body.pubkeys)
            /\ UNCHANGED batch
       ELSE IF Len(body.pubkeys) > MaxAccountsPerRequest
         THEN /\ accountsResponse' =
                   AccountsResponse(400, "Maximum 100 accounts per request",
                                    <<>>, body.pubkeys)
              /\ UNCHANGED batch
         ELSE getMultipleAccounts(body.pubkeys)
  /\ UNCHANGED cacheVars

\* The getAccount() promise of an address of toFetch settles; the fetch has
\* cached the account it got.
BatchFetchSettles(pubkey, outcome) ==
  /\ batch.pc = "await"
  /\ batch.fetched[pubkey] = "pending"
  /\ batch' = [batch EXCEPT !.fetched[pubkey] = outcome]
  /\ IF outcome \in {"grpc", "rpc_fallback"}
       THEN /\ accountCache' = CacheAccount(accountCache, pubkey)
            /\ entryAge' = [entryAge EXCEPT ![pubkey] = 0]
       ELSE UNCHANGED <<accountCache, entryAge>>
  /\ UNCHANGED <<rpcConfigured, pendingRequests, caller, delivered,
                 accountsResponse>>

\* Promise.allSettled resolves: getMultipleAccounts appends the fetched
\* entries to results and returns, and the route sends the response.
BatchReturns ==
  /\ batch.pc = "await"
  /\ \A a \in Addrs : batch.fetched[a] # "pending"
  /\ accountsResponse' =
       AccountsResponse(200, NoError,
                        batch.results \o FetchedEntries(batch.toFetch,
                                                        batch.fetched),
                        batch.pubkeys)
  /\ batch' = NoBatch
  /\ UNCHANGED cacheVars

BatchInit ==
  /\ batch = NoBatch
  /\ accountsResponse = NoAccountsResponse

\* ------------------------------------------------------------------------
\* Positions hub (/ws/positions)
\* ------------------------------------------------------------------------
\* sockets of /ws/positions, and pollPositions calls in flight together
NumHubClients == 2
MaxPolls == 2

HubClients == 1..NumHubClients

\* The strings a client names in msg.mints: two mint addresses, a string of
\* the length of an address with a character outside the base58 alphabet,
\* and a string that is too short.
Mints == {"mintA", "mintB"}
NotBase58 == "mint0"
TooShort == "short"
MintStrings == Mints \cup {NotBase58, TooShort}

\* m.length
MintLength(m) ==
  CASE m = "mintA" -> 44
    [] m = "mintB" -> 43
    [] m = NotBase58 -> 44
    [] m = TooShort -> 5

\* typeof m === 'string' && m.length >= 32 && m.length <= 44
AcceptedMint(m) == MintLength(m) >= 32 /\ MintLength(m) <= 44

VARIABLES
  hubRpcUrl,          \* RPC_URL is set
  hubConn,            \* per socket: none (not connected yet), or its
                      \* readyState open, closing, closed
  positionClients,    \* positionClients
  clientMints,        \* clientMints: socket -> set of mints
  allWatchedMints,    \* allWatchedMints
  mintCache,          \* keys of mintCache
  positionsPollTimer, \* positionsPollTimer is set
  pollsAwaitingPrice, \* pollPositions calls in `await fetchSolPrice()`
  pollsAwaitingRpc,   \* pollPositions calls in `await fetch(RPC_URL, ...)`,
                      \* counted per `mints` they took
  hubOut              \* per socket: the mints of the update message sent to
                      \* it in the last step

hubVars == <<hubRpcUrl, hubConn, positionClients, clientMints, allWatchedMints,
             mintCache, positionsPollTimer, pollsAwaitingPrice,
             pollsAwaitingRpc, hubOut>>

NothingSent == [ws \in HubClients |-> {}]

PollsInFlight ==
  LET RECURSIVE Sum(_)
      Sum(S) == IF S = {} THEN 0
                ELSE LET x == CHOOSE y \in S : TRUE
                     IN pollsAwaitingRpc[x] + Sum(S \ {x})
  IN pollsAwaitingPrice + Sum(DOMAIN pollsAwaitingRpc)

\* rebuildWatchedMints: the union of the sets of clientMints.
rebuildWatchedMints(mintsOf) == UNION {mintsOf[ws] : ws \in DOMAIN mintsOf}

\* pollPositions up to its return or to `await fetchSolPrice()`.
PollPositionsCall(watched) ==
  pollsAwaitingPrice' =
    IF watched = {} \/ ~hubRpcUrl THEN pollsAwaitingPrice
    ELSE pollsAwaitingPrice + 1

\* `if (allWatchedMints.size > 0) startPositionsPoll()`: sets the timer and
\* calls pollPositions, unless the timer is set.
StartIfWatched(watched) ==
  IF watched # {} /\ ~positionsPollTimer
    THEN /\ positionsPollTimer' = TRUE
         /\ PollsInFlight < MaxPolls
         /\ PollPositionsCall(watched)
    ELSE UNCHANGED <<positionsPollTimer, pollsAwaitingPrice>>

\* The tail of the unsubscribe and close handlers: mintCache loses the keys
\* that are not watched, and the timer is cleared when nothing is watched.
PruneAndStop(watched) ==
  /\ mintCache' = mintCache \cap watched
  /\ positionsPollTimer' = (positionsPollTimer /\ watched # {})

\* wssPositions 'connection'.
HubConnects(ws) ==
  /\ hubConn[ws] = "none"
  /\ hubConn' = [hubConn EXCEPT ![ws] = "open"]
  /\ positionClients' = positionClients \cup {ws}
  /\ clientMints' = [c \in DOMAIN clientMints \cup {ws} |->
                       IF c = ws THEN {} ELSE clientMints[c]]
  /\ hubOut' = NothingSent
  /\ UNCHANGED <<hubRpcUrl, allWatchedMints, mintCache, positionsPollTimer,
                 pollsAwaitingPrice, pollsAwaitingRpc>>

\* ws 'message' with type subscribe and an array msg.mints.
HubSubscribe(ws, mints) ==
  /\ hubConn[ws] = "open"
  /\ LET mintSet == clientMints[ws] \cup {m \in mints : AcceptedMint(m)}
         mintsOf == [clientMints EXCEPT ![ws] = mintSet]
         watched == rebuildWatchedMints(mintsOf)
     IN /\ clientMints' = mintsOf
        /\ allWatchedMints' = watched
        /\ StartIfWatched(watched)
  /\ hubOut' = NothingSent
  /\ UNCHANGED <<hubRpcUrl, hubConn, positionClients, mintCache,
                 pollsAwaitingRpc>>

\* ws 'message' with type unsubscribe and an array msg.mints.
HubUnsubscribe(ws, mints) ==
  /\ hubConn[ws] = "open"
  /\ LET mintsOf == [clientMints EXCEPT ![ws] = @ \ mints]
         watched == rebuildWatchedMints(mintsOf)
     IN /\ clientMints' = mintsOf
        /\ allWatchedMints' = watched
        /\ PruneAndStop(watched)
  /\ hubOut' = NothingSent
  /\ UNCHANGED <<hubRpcUrl, hubConn, positionClients, pollsAwaitingPrice,
                 pollsAwaitingRpc>>

\* The socket starts to close: its readyState is no longer OPEN.
HubSocketClosing(ws) ==
  /\ hubConn[ws] = "open"
  /\ hubConn' = [hubConn EXCEPT ![ws] = "closing"]
  /\ hubOut' = NothingSent
  /\ UNCHANGED <<hubRpcUrl, positionClients, clientMints, allWatchedMints,
                 mintCache, positionsPollTimer, pollsAwaitingPrice,
                 pollsAwaitingRpc>>

\* A 'close' handler that deletes the socket and leaves the rest as it is.
HubSocketCloses_NoRebuild(ws) ==
  /\ hubConn[ws] \in {"open", "closing"}
  /\ hubConn' = [hubConn EXCEPT ![ws] = "closed"]
  /\ positionClients' = positionClients \ {ws}
  /\ clientMints' = [c \in DOMAIN clientMints \ {ws} |-> clientMints[c]]
  /\ hubOut' = NothingSent
  /\ UNCHANGED <<hubRpcUrl, allWatchedMints, mintCache, positionsPollTimer,
                 pollsAwaitingPrice, pollsAwaitingRpc>>

\* ws 'close'.
HubSocketCloses(ws) ==
  /\ hubConn[ws] \in {"open", "closing"}
  /\ hubConn' = [hubConn EXCEPT ![ws] = "closed"]
  /\ positionClients' = positionClients \ {ws}
  /\ LET mintsOf == [c \in DOMAIN clientMints \ {ws} |-> clientMints[c]]
         watched == rebuildWatchedMints(mintsOf)
     IN /\ clientMints' = mintsOf
        /\ allWatchedMints' = watched
        /\ PruneAndStop(watched)
  /\ hubOut' = NothingSent
  /\ UNCHANGED <<hubRpcUrl, pollsAwaitingPrice, pollsAwaitingRpc>>

\* The interval timer fires and calls pollPositions.
PollTick ==
  /\ positionsPollTimer
  /\ PollsInFlight < MaxPolls
  /\ allWatchedMints # {} /\ hubRpcUrl
  /\ PollPositionsCall(allWatchedMints)
  /\ hubOut' = NothingSent
  /\ UNCHANGED <<hubRpcUrl, hubConn, positionClients, clientMints,
                 allWatchedMints, mintCache, positionsPollTimer,
                 pollsAwaitingRpc>>

\* `await fetchSolPrice()` settles: pollPositions takes the watched mints and
\* sets the mintCache entry of each one that has none.  decodeBase58 throws
\* on a character outside the alphabet: the call ends there, with the
\* entries set for the mints that came before, `reached`.  With no mint
\* watched any more the call returns; else it awaits the RPC request.
PollPriceSettles(reached) ==
  /\ pollsAwaitingPrice > 0
  /\ LET mints == allWatchedMints
     IN IF NotBase58 \in mints
          THEN /\ reached \subseteq mints \ {NotBase58}
               /\ mintCache' = mintCache \cup reached
               /\ pollsAwaitingPrice' = pollsAwaitingPrice - 1
               /\ UNCHANGED pollsAwaitingRpc
          ELSE /\ reached = mints
               /\ mintCache' = mintCache \cup mints
               /\ pollsAwaitingPrice' = pollsAwaitingPrice - 1
               /\ pollsAwaitingRpc' =
                    IF mints = {} THEN pollsAwaitingRpc
                    ELSE [pollsAwaitingRpc EXCEPT ![mints] = @ + 1]
  /\ hubOut' = NothingSent
  /\ UNCHANGED <<hubRpcUrl, hubConn, positionClients, clientMints,
                 allWatchedMints, positionsPollTimer>>

\* The RPC request of a call that took `mints` settles; `updated` are the
\* mints whose account came back with reserves other than the last ones
\* (none when the request failed).  Every socket of positionClients that is
\* open is sent the updates of the mints its set holds now, if any.
PollRpcSettles(mints, updated) ==
  /\ pollsAwaitingRpc[mints] > 0
  /\ updated \subseteq mints
  /\ pollsAwaitingRpc' = [pollsAwaitingRpc EXCEPT ![mints] = @ - 1]
  /\ hubOut' = [ws \in HubClients |->
       IF ws \in positionClients /\ hubConn[ws] = "open"
          /\ ws \in DOMAIN clientMints
         THEN updated \cap clientMints[ws]
         ELSE {}]
  /\ UNCHANGED <<hubRpcUrl, hubConn, positionClients, clientMints,
                 allWatchedMints, mintCache, positionsPollTimer,
                 pollsAwaitingPrice>>

HubInit(rpcUrl) ==
  /\ hubRpcUrl = rpcUrl
  /\ hubConn = [ws \in HubClients |-> "none"]
  /\ positionClients = {}
  /\ clientMints = [ws \in {} |-> {}]
  /\ allWatchedMints = {}
  /\ mintCache = {}
  /\ positionsPollTimer = FALSE
  /\ pollsAwaitingPrice = 0
  /\ pollsAwaitingRpc = [mints \in SUBSET (Mints \cup {NotBase58}) |-> 0]
  /\ hubOut = NothingSent

vars == <<tradeVars, connVars, cacheVars, subsVars, bundleResultVars, relayVars,
          batchVars, evictionVars, hubVars>>

\* What the steps of one component leave alone: the other components.
exceptTrade ==
  <<connVars, cacheVars, subsVars, bundleResultVars, relayVars, batchVars,
    evictionVars, hubVars>>
exceptConn ==
  <<tradeVars, cacheVars, subsVars, bundleResultVars, relayVars, batchVars,
    evictionVars, hubVars>>
exceptCache ==
  <<tradeVars, connVars, subsVars, bundleResultVars, relayVars, batchVars,
    evictionVars, hubVars>>
exceptSubs ==
  <<tradeVars, connVars, cacheVars, bundleResultVars, relayVars, batchVars,
    evictionVars, hubVars>>
exceptBundleResults ==
  <<tradeVars, connVars, cacheVars, subsVars, relayVars, batchVars,
    evictionVars, hubVars>>
exceptRelay ==
  <<tradeVars, connVars, cacheVars, subsVars, bundleResultVars, batchVars,
    evictionVars, hubVars>>
exceptBatch ==
  <<tradeVars, connVars, subsVars, bundleResultVars, relayVars, evictionVars,
    hubVars>>

HandlersInit ==
  /\ SubsInit(TRUE) /\ BundleResultsInit /\ RelayInit /\ BatchInit
  /\ EvictionInit /\ HubInit(TRUE)

Init == TradeInit /\ ConnInit("jito") /\ CacheInit(TRUE) /\ HandlersInit

Next ==
  \/ \E signed \in BOOLEAN, tipLamports \in TipAmounts :
       executeBuy(signed, tipLamports) /\ UNCHANGED exceptTrade
  \/ \E signed \in BOOLEAN, tipLamports \in TipAmounts :
       executeSell(signed, tipLamports) /\ UNCHANGED exceptTrade
  \/ \E t \in TradeIds, ok \in BOOLEAN :
       BlockhashGrpc(t, ok) /\ UNCHANGED exceptTrade
  \/ \E t \in TradeIds, ok \in BOOLEAN :
       BlockhashRpc(t, ok) /\ UNCHANGED exceptTrade
  \/ \E t \in TradeIds, ok \in BOOLEAN :
       JupiterQuote(t, ok) /\ UNCHANGED exceptTrade
  \/ \E t \in TradeIds, ok \in BOOLEAN :
       JupiterSwapTx(t, ok) /\ UNCHANGED exceptTrade
  \/ \E t \in TradeIds, outcome \in RelayOutcomes :
       ExecuteSendBundle(t, outcome) /\ UNCHANGED exceptTrade
  \/ \E tradeId \in TradeIds \cup {UnknownTradeId} :
       submitSignedTransaction(tradeId) /\ UNCHANGED exceptTrade
  \/ \E t \in TradeIds, outcome \in RelayOutcomes :
       SubmitSendBundle(t, outcome) /\ UNCHANGED exceptTrade
  \/ \E aged \in 0..nextTradeId : cleanup(aged) /\ UNCHANGED exceptTrade

\* The trade orchestrator, with the outcomes of its providers chosen freely.
Spec == Init /\ [][Next]_vars

TradeStatusNext ==
  \/ Next
  \/ \E tradeId \in TradeIds \cup {UnknownTradeId} :
       getTrade(tradeId) /\ UNCHANGED exceptTrade
  \/ \E ws \in Sockets : TradeSocketConnects(ws) /\ UNCHANGED exceptTrade
  \/ \E ws \in Sockets, msg \in TradeStatusMessages :
       TradeStatusMessage(ws, msg) /\ UNCHANGED exceptTrade
  \/ \E ws \in Sockets : TradeSocketClosing(ws) /\ UNCHANGED exceptTrade
  \/ \E ws \in Sockets : TradeSocketCloses(ws) /\ UNCHANGED exceptTrade

\* The trade orchestrator with the readers of its table: GET
\* /grpc/trade/:tradeId and the sockets of the trade status stream.
TradeStatusSpec == Init /\ [][TradeStatusNext]_vars

PushFailNext ==
  \/ TradeStatusNext
  \/ \E ws \in Sockets : SendBreaks(ws) /\ UNCHANGED exceptTrade

\* The trade status stream with sockets whose ws.send can start to throw.
PushFailSpec == Init /\ [][PushFailNext]_vars

ConnInits ==
  TradeInit /\ CacheInit(TRUE) /\ HandlersInit /\ \E m \in Managers : ConnInit(m)

\* What the callers, the upstream and the event loop do; testOks are the
\* outcomes the upstream can give to the connectivity test.
ConnNextWith(testOks) ==
  \/ \E p \in Procs : getClient(p) /\ UNCHANGED exceptConn
  \/ \E p \in Procs : reconnect(p) /\ UNCHANGED exceptConn
  \/ \E p \in Procs, ok \in BOOLEAN :
       ImportSettles(p, ok) /\ UNCHANGED exceptConn
  \/ \E p \in Procs, ok \in BOOLEAN :
       ConnectSettles(p, ok) /\ UNCHANGED exceptConn
  \/ \E p \in Procs, ok \in testOks :
       TestSettles(p, ok) /\ UNCHANGED exceptConn
  \/ \E p \in Procs : BackoffExpires(p) /\ UNCHANGED exceptConn
  \/ \E p \in Procs : OwnerResumes(p) /\ UNCHANGED exceptConn
  \/ \E p \in Procs : JoinerResumes(p) /\ UNCHANGED exceptConn

ConnNext == ConnNextWith(BOOLEAN)

\* One connection manager under any interleaving of getClient() and
\* reconnect() calls.
ConnSpec == ConnInits /\ [][ConnNext]_vars

ConnDownNext == ConnNextWith({FALSE})

\* A pending timer fires, a pending upstream call settles and a continuation
\* whose promise is settled runs: the event loop leaves none of them behind.
\* Nothing obliges a caller to call.
EventLoopFairness ==
  \A p \in Procs :
    /\ WF_vars(\E ok \in BOOLEAN : ImportSettles(p, ok) /\ UNCHANGED exceptConn)
    /\ WF_vars(\E ok \in BOOLEAN : ConnectSettles(p, ok) /\ UNCHANGED exceptConn)
    /\ WF_vars(TestSettles(p, FALSE) /\ UNCHANGED exceptConn)
    /\ WF_vars(BackoffExpires(p) /\ UNCHANGED exceptConn)
    /\ WF_vars(OwnerResumes(p) /\ UNCHANGED exceptConn)
    /\ WF_vars(JoinerResumes(p) /\ UNCHANGED exceptConn)

\* One connection manager against an upstream whose every connection attempt
\* fails its connectivity test at the latest.
ConnDownSpec == ConnInits /\ [][ConnDownNext]_vars /\ EventLoopFairness

\* The Yellowstone manager with callers whose operations can fail.
OperationsNext ==
  \/ ConnNext
  \/ \E p \in Procs, issuer \in OperationCallers :
       OperationFails(p, issuer) /\ UNCHANGED exceptConn

OperationsInits ==
  /\ TradeInit /\ CacheInit(TRUE) /\ HandlersInit /\ ConnInit("yellowstone")

OperationsSpec == OperationsInits /\ [][OperationsNext]_vars

\* _cacheAccount on a cache that is full or nearly full.
EvictionNext ==
  \E pubkey \in Addrs \cup {ToString(maxCacheSize)} :
    /\ CacheInsert(pubkey)
    /\ UNCHANGED <<tradeVars, connVars, subsVars, bundleResultVars, relayVars,
                   batchVars, hubVars>>

EvictionInits ==
  /\ TradeInit /\ ConnInit("yellowstone") /\ HandlersInit
  /\ \E n \in {maxCacheSize - 2, maxCacheSize - 1, maxCacheSize} :
       CacheInitWith(TRUE, Prefilled(n))

EvictionSpec == EvictionInits /\ [][EvictionNext]_vars

exceptHub ==
  <<tradeVars, connVars, cacheVars, subsVars, bundleResultVars, relayVars,
    batchVars, evictionVars>>

HubNext ==
  \/ \E ws \in HubClients : HubConnects(ws) /\ UNCHANGED exceptHub
  \/ \E ws \in HubClients, mints \in SUBSET MintStrings :
       HubSubscribe(ws, mints) /\ UNCHANGED exceptHub
  \/ \E ws \in HubClients, mints \in SUBSET MintStrings :
       HubUnsubscribe(ws, mints) /\ UNCHANGED exceptHub
  \/ \E ws \in HubClients : HubSocketClosing(ws) /\ UNCHANGED exceptHub
  \/ \E ws \in HubClients : HubSocketCloses(ws) /\ UNCHANGED exceptHub
  \/ PollTick /\ UNCHANGED exceptHub
  \/ \E reached \in SUBSET Mints :
       PollPriceSettles(reached) /\ UNCHANGED exceptHub
  \/ \E mints \in SUBSET Mints, updated \in SUBSET Mints :
       PollRpcSettles(mints, updated) /\ UNCHANGED exceptHub

\* The positions hub under any interleaving of its sockets' events and of
\* its polls, with or without RPC_URL.
HubInits ==
  /\ TradeInit /\ ConnInit("jito") /\ CacheInit(TRUE) /\ SubsInit(TRUE)
  /\ BundleResultsInit /\ RelayInit /\ BatchInit /\ EvictionInit
  /\ \E rpcUrl \in BOOLEAN : HubInit(rpcUrl)

HubSpec == HubInits /\ [][HubNext]_vars

CacheInits ==
  /\ TradeInit /\ ConnInit("yellowstone") /\ HandlersInit
  /\ \E cfg \in BOOLEAN : CacheInit(cfg)

CacheNext ==
  \/ \E c \in Callers, pubkey \in Addrs :
       getAccount(c, pubkey) /\ UNCHANGED exceptCache
  \/ \E c \in Callers, ok \in BOOLEAN :
       GetClientSettles(c, ok) /\ UNCHANGED exceptCache
  \/ \E c \in Callers, ok \in BOOLEAN :
       SubscribeSettles(c, ok) /\ UNCHANGED exceptCache
  \/ \E c \in Callers : StreamData(c) /\ UNCHANGED exceptCache
  \/ \E c \in Callers : StreamError(c) /\ UNCHANGED exceptCache
  \/ \E c \in Callers : StreamTimeout(c) /\ UNCHANGED exceptCache
  \/ \E c \in Callers, outcome \in RpcOutcomes :
       RpcSettles(c, outcome) /\ UNCHANGED exceptCache
  \/ \E c \in Callers :
       FetchOwnerResumes(c) /\ UNCHANGED exceptCache
  \/ \E c \in Callers :
       FetchJoinerResumes(c) /\ UNCHANGED exceptCache
  \/ ClockTick /\ UNCHANGED exceptCache

\* The account cache under any interleaving of getAccount() calls, with the
\* outcomes of the streaming provider and of the RPC provider chosen freely.
CacheSpec == CacheInits /\ [][CacheNext]_vars

\* Every await of a fetch settles, the fetch timer fires unless the stream
\* has answered, and a continuation whose promise is settled runs.
FetchesComplete ==
  \A c \in Callers :
    /\ WF_vars(\E ok \in BOOLEAN : GetClientSettles(c, ok) /\ UNCHANGED exceptCache)
    /\ WF_vars(\E ok \in BOOLEAN : SubscribeSettles(c, ok) /\ UNCHANGED exceptCache)
    /\ WF_vars((StreamData(c) \/ StreamError(c) \/ StreamTimeout(c))
                 /\ UNCHANGED exceptCache)
    /\ WF_vars(\E outcome \in RpcOutcomes :
                 RpcSettles(c, outcome) /\ UNCHANGED exceptCache)
    /\ WF_vars(FetchOwnerResumes(c) /\ UNCHANGED exceptCache)
    /\ WF_vars(FetchJoinerResumes(c) /\ UNCHANGED exceptCache)

\* The account cache when every fetch completes.
CacheLiveSpec == CacheInits /\ [][CacheNext]_vars /\ FetchesComplete

SubsInits ==
  /\ TradeInit /\ ConnInit("yellowstone") /\ CacheInit(TRUE)
  /\ BundleResultsInit /\ RelayInit /\ BatchInit /\ EvictionInit
  /\ HubInit(TRUE)
  /\ \E configured \in BOOLEAN : SubsInit(configured)

SubsNext ==
  \/ \E ws \in WsClients, kind \in StreamKinds :
       SubscriberConnects(ws, kind) /\ UNCHANGED exceptSubs
  \/ \E ws \in WsClients, filterOk \in BOOLEAN :
       SubscribeMessage(ws, filterOk) /\ UNCHANGED exceptSubs
  \/ \E ws \in WsClients : SubscribeImportSettles(ws) /\ UNCHANGED exceptSubs
  \/ \E ws \in WsClients, ok \in BOOLEAN :
       SubscribeStreamSettles(ws, ok) /\ UNCHANGED exceptSubs
  \/ \E ws \in WsClients : UnsubscribeMessage(ws) /\ UNCHANGED exceptSubs
  \/ \E ws \in WsClients : SubscriberCloses(ws) /\ UNCHANGED exceptSubs

\* The transaction and account stream handlers under any interleaving of the
\* messages and disconnections of their sockets.
SubsSpec == SubsInits /\ [][SubsNext]_vars

\* The handlers of the trade status stream and those of the transaction and
\* account streams share no state; a run has sockets of one of the two.
UnsubscribeNext ==
  \/ /\ \A ws \in WsClients : wsConn[ws] = NoConn
     /\ TradeStatusNext
  \/ /\ nextTradeId = 0
     /\ \A ws \in Sockets : readyState[ws] = "CLOSED"
     /\ SubsNext

BatchNext ==
  \/ \E body \in AccountsRequests : PostAccounts(body) /\ UNCHANGED exceptBatch
  \/ \E pubkey \in Addrs, outcome \in GetAccountOutcomes :
       BatchFetchSettles(pubkey, outcome) /\ UNCHANGED exceptBatch
  \/ BatchReturns /\ UNCHANGED exceptBatch
  \/ ClockTick /\ UNCHANGED exceptCache

\* POST /grpc/accounts, one request at a time, with the outcomes of the
\* fetches chosen freely and the cache entries aging.
BatchSpec == Init /\ [][BatchNext]_vars

\* Every subscriber registry with the messages and disconnections of its
\* sockets.
UnsubscribeSpec == Init /\ [][UnsubscribeNext]_vars

BundleResultsInits ==
  /\ TradeInit /\ ConnInit("jito") /\ CacheInit(TRUE) /\ SubsInit(TRUE)
  /\ BundleResultsInit /\ RelayInit /\ BatchInit /\ EvictionInit
  /\ HubInit(TRUE)

BundleResultsNext ==
  \/ \E ws \in BundleClients :
       BundleSubscriberConnects(ws) /\ UNCHANGED exceptBundleResults
  \/ \E ws \in BundleClients, ok \in BOOLEAN :
       BundleClientSettles(ws, ok) /\ UNCHANGED exceptBundleResults
  \/ \E ws \in BundleClients :
       BundleSubscriberCloses(ws) /\ UNCHANGED exceptBundleResults

\* The bundle results handler under any timing of its sockets' disconnections.
BundleResultsSpec == BundleResultsInits /\ [][BundleResultsNext]_vars

RelayNext ==
  \/ \E size \in BundleSizes \cup {NoTransactions} :
       HttpBundleRequest(size) /\ UNCHANGED exceptRelay
  \/ \E e \in Endpoints, outcome \in FetchOutcomes :
       FetchSettles(e, outcome) /\ UNCHANGED exceptRelay
  \/ \E size \in BundleSizes \cup {NoTransactions} :
       GrpcBundleRequest(size) /\ UNCHANGED exceptRelay
  \/ \E ok \in BOOLEAN, deserializes \in BOOLEAN :
       GrpcClientSettles(ok, deserializes) /\ UNCHANGED exceptRelay
  \/ \E outcome \in {"result", "not_ok", "error"} :
       GrpcSendSettles(outcome) /\ UNCHANGED exceptRelay

\* The two bundle routes, with the outcomes of the relay chosen freely.
RelaySpec == Init /\ [][RelayNext]_vars

\* ------------------------------------------------------------------------
\* Properties of TradeService
\* ------------------------------------------------------------------------
Last(seq) == seq[Len(seq)]

Range(seq) == {seq[i] : i \in 1..Len(seq)}

StepNames(t) == [i \in 1..Len(activeTrades[t].steps) |->
                   activeTrades[t].steps[i].name]

CountSteps(t, name) ==
  Cardinality({i \in 1..Len(activeTrades[t].steps) :
                 activeTrades[t].steps[i].name = name})

\* The status changes of the state machine; submitted and failed have no
\* successor.
StatusTransitions ==
  {<<"pending", "started">>,
   <<"started", "awaiting_signature">>,
   <<"started", "submitted">>,
   <<"started", "failed">>,
   <<"awaiting_signature", "submitted">>,
   <<"awaiting_signature", "failed">>}

\* C1: every change of a trade's status is a transition of the state machine
\* (pending->started, started->awaiting_signature|submitted|failed,
\* awaiting_signature->submitted|failed); submitted and failed never change.
C1_StatusFollowsStateMachine ==
  \A t \in TradeIds : \A i \in 1..(Len(statusLog[t]) - 1) :
    statusLog[t][i] # statusLog[t][i + 1]
      => <<statusLog[t][i], statusLog[t][i + 1]>> \in StatusTransitions

\* C2: for every trade at most one bundle is sent to the relay by
\* submitSignedTransaction calls and at most one bundle_sent step is recorded,
\* however many calls overlap.
C2_OneBundlePerTrade ==
  \A t \in TradeIds :
    /\ relaySends[t] <= 1
    /\ t \in DOMAIN activeTrades => CountSteps(t, "bundle_sent") <= 1

AcceptedCall(r) ==
  r.op \in {"buy", "sell"} \/ r.entryStatus = "awaiting_signature"

AttemptsInFlight ==
  {p \in Procs : proc[p].pc = "await_own" /\ proc[p].phase \in InFlight}

\* Claim C5: at most one connection attempt is in flight per manager at any
\* time, and every getClient() call that is waiting on a pending promise
\* waits on the promise of that one attempt.
C5_OneAttemptInFlight ==
  /\ Cardinality(AttemptsInFlight) <= 1
  /\ \A q \in Procs :
       (proc[q].pc = "await_join" /\ proc[q].phase = "pending")
         => AttemptsInFlight = {proc[q].att}

\* All callers called getClient() while disconnected: one of them runs the
\* attempt and all the others wait on it.
C5_Witness ==
  \E p \in Procs :
    /\ AttemptsInFlight = {p}
    /\ proc[p].op = "getClient"
    /\ \A q \in Procs \ {p} :
         /\ proc[q].op = "getClient"
         /\ proc[q].pc = "await_join"
         /\ proc[q].att = p
         /\ proc[q].phase = "pending"

\* Claim C6: getClient() does not hand out a client before the connection
\* attempt that made the client, connectivity test included, has completed.
C6_NoClientBeforeAttemptCompletes ==
  \A p \in Procs :
    (proc[p].op = "getClient" /\ proc[p].pc = "done"
       /\ proc[p].result.kind = "client")
      => proc[p].result.tested

\* reconnect() calls between their first statement and their return.
ReconnectLoops ==
  {p \in Procs : proc[p].op = "reconnect" /\ proc[p].pc # "done"}

\* Claim C7: at most one reconnect loop is active per manager at any time,
\* however many reconnect() calls overlap.
C7_OneReconnectLoop == Cardinality(ReconnectLoops) <= 1

\* The delays reconnect() can wait for: the base delay doubled per attempt.
BackoffDelays ==
  {reconnectDelay * Pow(2, k - 1) : k \in 1..maxReconnectAttempts}

\* Claim C8: against an upstream whose every connection attempt fails,
\* reconnect() discards the client, makes at most maxReconnectAttempts
\* connection attempts, waits the base delay doubled per attempt before each
\* of them, returns null, and every reconnect() call returns.
C8_ReconnectTerminates ==
  /\ [](/\ reconnectTries <= maxReconnectAttempts
        /\ \A p \in Procs :
             /\ proc[p].pc = "backoff" => proc[p].delay \in BackoffDelays
             /\ (proc[p].op = "reconnect" /\ proc[p].pc = "done")
                  => proc[p].result.kind = "null")
  /\ \A p \in Procs : (p \in ReconnectLoops) ~> (proc[p].pc = "done")

\* ------------------------------------------------------------------------
\* Properties of AccountCacheManager
\* ------------------------------------------------------------------------
\* Callers whose fetch of pubkey has not settled.
FetchesInFlight(pubkey) ==
  {c \in Callers : /\ caller[c].pc = "await_own"
                   /\ caller[c].pubkey = pubkey
                   /\ caller[c].stage \in FetchStages}

\* No fresh cache entry and a fetch in flight: a call made now is concurrent
\* with the fetch.
FetchOutstanding(pubkey) ==
  pubkey \notin freshEntries /\ FetchesInFlight(pubkey) # {}

\* Claim C9: at most one fetch per address is in flight; a getAccount() call
\* made while the fetch of its address is in flight starts no fetch and waits
\* for that one; when the fetch settles, all the callers waiting for it get
\* its result, or its failure, and that is what they return; a fetch in
\* flight for one address does not keep a call for another address from
\* starting its own.
C9_CoalescedFetch ==
  /\ [](\A pubkey \in Addrs :
          /\ Cardinality(FetchesInFlight(pubkey)) <= 1
          /\ \A d \in Callers :
               (/\ caller[d].pc = "await_join"
                /\ caller[d].pubkey = pubkey
                /\ caller[d].stage = "pending")
                 => FetchesInFlight(pubkey) = {caller[d].att})
  /\ [][\A c, d \in Callers :
          (/\ c \in FetchesInFlight(caller[c].pubkey)
           /\ caller'[c].stage \in Settled
           /\ caller[d].pc = "await_join"
           /\ caller[d].pubkey = caller[c].pubkey
           /\ caller[d].stage = "pending")
            => /\ caller'[d].stage = caller'[c].stage
               /\ caller'[d].value = caller'[c].value]_vars
  /\ [][\A c \in Callers :
          (caller[c].pc # "done" /\ caller'[c].pc = "done")
            => delivered'.result = caller[c].value]_vars
  /\ [][\A c \in Callers, pubkey \in Addrs :
          (getAccount(c, pubkey) /\ caller[c].pc = "done") =>
            /\ FetchOutstanding(pubkey) =>
                 /\ caller'[c].pc = "await_join"
                 /\ FetchesInFlight(pubkey) = {caller'[c].att}
                 /\ UNCHANGED pendingRequests
            /\ (pubkey \notin freshEntries
                  /\ pendingRequests[pubkey] = NoPending) =>
                 /\ caller'[c].pc = "await_own"
                 /\ pendingRequests'[pubkey].owner = c]_vars

\* All the callers called for one address and were handed the account by
\* the one fetch made.
C9_Witness ==
  /\ delivered.calls = NumCallers
  /\ delivered.result.kind = "account"
  /\ delivered.result.source = "grpc"

\* Claim C10: with the RPC provider configured, getAccount() raises no error
\* before the fetch has sent its request to the RPC provider, whether the
\* snapshot failed in getClient(), in subscribe(), by a stream error or by
\* the fetch timer.
C10_RpcFallbackBeforeError ==
  (rpcConfigured /\ delivered.result.kind = "error")
    => delivered.result.rpcQueried

\* Claim C11: a getAccount() call made while the entry of its address is
\* younger than cacheTTL returns the entry with source cache and starts or
\* joins no fetch; a call made when the age of the entry has reached cacheTTL
\* does not return the entry: it starts a fetch or waits for the pending one;
\* the passing of time removes no entry.
C11_CacheTTL ==
  /\ [][\A c \in Callers, pubkey \in CacheKeys(accountCache) :
          getAccount(c, pubkey) =>
            IF entryAge[pubkey] < cacheTTL
              THEN /\ delivered'.result
                        = FetchResult("account", "cache", FALSE, NoError)
                   /\ UNCHANGED <<pendingRequests, caller, accountCache,
                                  entryAge>>
              ELSE /\ caller'[c].pubkey = pubkey
                   /\ caller'[c].pc \in {"await_own", "await_join"}
                   /\ caller'[c].pc = "await_own"
                        => /\ caller'[c].stage = "getClient"
                           /\ pendingRequests'[pubkey].owner = c
                   /\ caller'[c].pc = "await_join"
                        => pendingRequests[pubkey] # NoPending
                   /\ delivered' \in {delivered, NothingDelivered}]_vars
  /\ [][ClockTick => accountCache' = accountCache]_vars

\* A call was served from the cache, and a call for an address whose entry
\* has reached cacheTTL is fetching.
C11_Witness ==
  /\ delivered.result.source = "cache"
  /\ \E c \in Callers :
       /\ caller[c].pc = "await_own"
       /\ caller[c].stage = "getClient"
       /\ caller[c].pubkey \in CacheKeys(accountCache)
       /\ entryAge[caller[c].pubkey] = cacheTTL

\* ------------------------------------------------------------------------
\* Properties of the subscription handlers
\* ------------------------------------------------------------------------
\* Claim C12: once a socket of the transaction or account stream has
\* disconnected or unsubscribed and none of its subscribe requests is still
\* being set up, no upstream stream opened for it is left open and the
\* registry has no entry for it: no stream outlives its socket.
C12_NoStreamOutlivesSocket ==
  \A ws \in WsClients :
    (/\ SetupsInFlight(ws) = 0
     /\ wsConn[ws].state = "closed" \/ ~wsConn[ws].subscribed)
      => /\ openStreams[ws] = {}
         /\ subscribers[ws] = NoStream

\* Claim C13: once the handler of a bundle results socket is no longer
\* awaiting the relay connection, a disconnected socket has no upstream
\* subscription and no registry entry; when no handler is awaiting, the
\* registry holds exactly the connected sockets.
C13_RegistryIsConnectedSockets ==
  /\ \A ws \in BundleClients :
       (bundleConn[ws].state = "closed" /\ bundleConn[ws].pc # "await_client")
         => ws \notin bundleSubscriptions \cup bundleResultSubscribers
  /\ (\A ws \in BundleClients : bundleConn[ws].pc # "await_client")
       => bundleResultSubscribers =
            {ws \in BundleClients : bundleConn[ws].state = "open"}

\* ------------------------------------------------------------------------
\* Properties of the bundle relay routes
\* ------------------------------------------------------------------------
Accepted == {e \in Endpoints : fetches[e] = "result"}

\* Claim C14: send_bundle returns as soon as the first successful endpoint
\* response is observed: while a success has been observed and no response
\* has been given, the next step of the route is its response, and it does
\* not wait for another endpoint.
C14_ReturnsOnFirstSuccess ==
  [][(httpBundle.pc = "await_all" /\ Accepted # {})
       => httpBundle'.response.kind = "result"]_vars

\* Claim C15: on both routes a bundle of 0 or of more than 5 transactions is
\* answered with a validation error and no relay endpoint is contacted; a
\* bundle of 1 to 5 transactions is not answered with a validation error.
C15_BundleSizeValidated ==
  /\ (httpBundle.pc # "idle" /\ httpBundle.size \notin 1..MaxBundleTransactions)
       => /\ httpBundle.response.kind = "validation"
          /\ \A e \in Endpoints : fetches[e] = "none"
  /\ (grpcBundle.pc # "idle" /\ grpcBundle.size \notin 1..MaxBundleTransactions)
       => /\ grpcBundle.response.kind = "validation"
          /\ grpcBundle.pc = "responded"
  /\ httpBundle.size \in 1..MaxBundleTransactions
       => httpBundle.response.kind # "validation"
  /\ grpcBundle.size \in 1..MaxBundleTransactions
       => grpcBundle.response.kind # "validation"

\* Claim C16: when every endpoint failed or returned an upstream error, the
\* response is an error that carries the detail of the last error observed
\* (the last to settle, or the last in the order of the endpoints); the
\* response is a success only if an endpoint returned a response without
\* upstream error.
C16_LastErrorReported ==
  httpBundle.pc = "responded" /\ httpBundle.response.kind # "validation" =>
    /\ Accepted = {} =>
         /\ httpBundle.response.kind \in {"upstream_error", "rejected"}
         /\ httpBundle.response.from \in {Last(settled), JITO_PARALLEL_SEND}
    /\ httpBundle.response.kind = "result" =>
         httpBundle.response.from \in Accepted

\* ------------------------------------------------------------------------
\* Properties of executeBuy, submitSignedTransaction and getTrade
\* ------------------------------------------------------------------------
\* The names of the steps of a trade's step log, in order.
NamesOf(steps) == [i \in 1..Len(steps) |-> steps[i].name]

C18_UnsignedBuyAwaitsSignature ==
  [][\A t \in TradeIds :
       (/\ execCall[t].pc = "swap_tx"
        /\ execCall[t].op = "buy"
        /\ ~execCall[t].signed
        /\ execCall'[t].pc = "done"
        /\ returned'.kind # "error")
         => /\ returned'.kind = "awaiting_signature"
            /\ returned'.tradeId = t
            /\ returned'.bundleId = NoBundle
            /\ relaySends'[t] = 0
            /\ returned'.payload.swapTransaction = SwapTransaction
            /\ returned'.payload.blockhash = execCall[t].blockhash.blockhash
            /\ returned'.payload.blockhash \in
                 {GrpcBlockhash.blockhash, RpcBlockhash.blockhash}
            /\ returned'.payload.lastValidBlockHeight =
                 ToString(execCall[t].blockhash.lastValidBlockHeight)
            /\ returned'.payload.quote = execCall[t].quote
            /\ returned'.payload.quote \in Quotes
            /\ returned'.payload.tipLamports = execCall[t].tipLamports
            /\ returned'.payload.tipLamports \in TipAmounts
            /\ \E i \in 1..Len(JITO_TIP_ACCOUNTS) :
                 returned'.payload.tipAccount = JITO_TIP_ACCOUNTS[i]
            /\ t \in DOMAIN activeTrades' =>
                 /\ activeTrades'[t].status = "awaiting_signature"
                 /\ activeTrades'[t].bundleId = NoBundle]_vars

C18_Witness ==
  /\ returned.op = "buy"
  /\ returned.kind = "awaiting_signature"
  /\ returned.payload.tipAccount = JITO_TIP_ACCOUNTS[Len(JITO_TIP_ACCOUNTS)]
  /\ returned.payload.tipLamports # DefaultTipLamports
  /\ returned.tradeId \in DOMAIN activeTrades
  /\ activeTrades[returned.tradeId].status = "awaiting_signature"

\* The blockhash step the call has just pushed on the steps of trade t.
BlockhashStepAdded(t, source) ==
  t \in DOMAIN activeTrades' =>
    /\ Len(activeTrades'[t].steps) = Len(activeTrades[t].steps) + 1
    /\ Last(activeTrades'[t].steps).name = "blockhash"
    /\ Last(activeTrades'[t].steps).status = "success"
    /\ Last(activeTrades'[t].steps).data.source = source
    /\ activeTrades'[t].status = "started"

\* Claim C19: when the streaming provider gives the blockhash the trade gets
\* a blockhash step with provenance grpc; when it fails the trade does not
\* fail but asks the RPC, and when the RPC answers the trade gets a blockhash
\* step with provenance rpc_fallback; in both cases the call goes on to the
\* quote.  The call ends at the blockhash only when the RPC has failed after
\* the streaming provider, and the trade is then failed.
C19_BlockhashFallback ==
  [][\A t \in TradeIds :
       /\ (execCall[t].pc = "blockhash_grpc" /\ execCall'[t] # execCall[t])
            => \/ /\ execCall'[t].pc = "quote"
                  /\ execCall'[t].blockhash = GrpcBlockhash
                  /\ BlockhashStepAdded(t, "grpc")
               \/ /\ execCall'[t].pc = "blockhash_rpc"
                  /\ activeTrades' = activeTrades
                  /\ returned'.kind # "error"
       /\ (execCall[t].pc = "blockhash_rpc" /\ execCall'[t] # execCall[t])
            => \/ /\ execCall'[t].pc = "quote"
                  /\ execCall'[t].blockhash = RpcBlockhash
                  /\ BlockhashStepAdded(t, "rpc_fallback")
                  /\ returned'.kind # "error"
               \/ /\ execCall'[t].pc = "done"
                  /\ returned'.kind = "error"
                  /\ returned'.tradeId = t
                  /\ t \in DOMAIN activeTrades' =>
                       /\ activeTrades'[t].status = "failed"
                       /\ \A i \in 1..Len(activeTrades'[t].steps) :
                            activeTrades'[t].steps[i].name # "blockhash"]_vars

C19_Witness ==
  \E t \in DOMAIN activeTrades :
    /\ execCall[t].pc = "quote"
    /\ activeTrades[t].status = "started"
    /\ Len(activeTrades[t].steps) = 1
    /\ activeTrades[t].steps[1].name = "blockhash"
    /\ activeTrades[t].steps[1].data.source = "rpc_fallback"

\* Claim C20: submitSignedTransaction throws "Trade not found" for a trade id
\* that is not in the table (never created, or reaped) and "Trade is not
\* awaiting signature" for a trade whose status is not awaiting_signature;
\* in both cases no bundle is sent, no step is appended, no subscriber is
\* sent anything and the table is unchanged.  getTrade of an id that is not
\* in the table returns no trade and changes nothing.
C20_RejectedSubmitChangesNothing ==
  [][\A tradeId \in TradeIds \cup {UnknownTradeId} :
       /\ (submitSignedTransaction(tradeId) /\ tradeId \notin DOMAIN activeTrades)
            => /\ returned'.kind = "error"
               /\ returned'.error = "Trade not found"
               /\ wsOut' = NoMessages
               /\ UNCHANGED <<activeTrades, statusLog, relaySends,
                              submitCalls, tradeSubscribers>>
       /\ (/\ submitSignedTransaction(tradeId)
           /\ tradeId \in DOMAIN activeTrades
           /\ activeTrades[tradeId].status # "awaiting_signature")
            => /\ returned'.kind = "error"
               /\ returned'.error = "Trade is not awaiting signature"
               /\ wsOut' = NoMessages
               /\ UNCHANGED <<activeTrades, statusLog, relaySends,
                              submitCalls, tradeSubscribers>>
       /\ (getTrade(tradeId) /\ tradeId \notin DOMAIN activeTrades)
            => /\ returned'.kind = "undefined"
               /\ wsOut' = NoMessages
               /\ UNCHANGED <<activeTrades, statusLog, relaySends,
                              submitCalls, tradeSubscribers, readyState,
                              execCall, nextTradeId>>]_vars

C20_Witness ==
  /\ returned.op = "submit"
  /\ returned.error = "Trade is not awaiting signature"
  /\ \E ws \in Sockets :
       /\ readyState[ws] = "OPEN"
       /\ returned.tradeId \in SubscriptionsOf(ws)
  /\ wsOut = NoMessages

\* ------------------------------------------------------------------------
\* Properties of the trade status stream
\* ------------------------------------------------------------------------
\* The sockets _notifySubscribers sends an update of trade t to.
Notified(t) ==
  {ws \in Sockets : readyState[ws] = "OPEN" /\ t \in SubscriptionsOf(ws)}

C22_FailedPushIsIsolated ==
  [][\A t \in DOMAIN activeTrades \cap DOMAIN activeTrades' :
       activeTrades'[t] # activeTrades[t]
         => /\ \A ws \in Notified(t) \ sendThrows :
                 /\ wsOut'[ws] # <<>>
                 /\ Last(wsOut'[ws]) = TradeUpdateMessage(t, activeTrades'[t])
            /\ returned'.error # SendError
            /\ activeTrades'[t].error # SendError]_vars

\* The sockets a step has handed a trade_update of trade t to.
Receivers(out, t) ==
  {ws \in Sockets : \E i \in 1..Len(out[ws]) : out[ws][i].tradeId = t}

C24_BadMessageGetsErrorReply ==
  [][\A ws \in Sockets, msg \in TradeStatusMessages :
       (/\ TradeStatusMessage(ws, msg)
        /\ \/ ~msg.parses
           \/ /\ msg.type # "ping"
              /\ msg.action \in {"subscribe", "unsubscribe"}
              /\ ~msg.hasTradeId)
         => /\ returned'.kind \in {"error", "parse_error"}
            /\ readyState'[ws] = "OPEN"
            /\ UNCHANGED tradeSubscribers]_vars

\* Claim C25: a subscribe message whose filter names no account (account
\* updates: no account and no owner; transactions: empty account lists) is
\* rejected before any upstream work: the handler answers with an error,
\* starts to set up no upstream stream and registers nothing.
C25_SubscribeValidatedFirst ==
  [][\A ws \in WsClients :
       SubscribeMessage(ws, FALSE)
         => /\ SubscribeRejected(ws, FALSE)
            /\ UNCHANGED <<wsConn, subscribers, openStreams>>]_vars

\* Claim C26: an unsubscribe of a socket that is not subscribed changes no
\* registry and destroys no stream, and is answered like any other (trade
\* status stream: `unsubscribed`, not an error); removeSubscriber of a socket
\* without registry entry changes nothing; after an unsubscribe the socket
\* is not subscribed, so that a second unsubscribe changes nothing more.
C26_UnsubscribeIsIdempotent ==
  [][/\ \A ws \in Sockets, tradeId \in TradeIds \cup {UnknownTradeId} :
          unsubscribe(ws, tradeId)
            => /\ tradeId \notin SubscriptionsOf(ws)
                    => UNCHANGED <<tradeSubscribers, activeTrades>>
               /\ tradeId \notin SubscriptionsOf(ws)'
               /\ returned'.kind = "unsubscribed"
     /\ \A ws \in WsClients :
          /\ UnsubscribeMessage(ws)
               => /\ ~wsConn[ws].subscribed
                       => UNCHANGED <<wsConn, subscribers, openStreams>>
                  /\ ~wsConn'[ws].subscribed
                  /\ subscribers'[ws] = NoStream
          /\ (SubscriberCloses(ws) /\ subscribers[ws] = NoStream)
               => UNCHANGED <<subscribers, openStreams>>]_vars

C26_Witness ==
  /\ returned.op = "message"
  /\ returned.kind = "unsubscribed"
  /\ returned.tradeId \in DOMAIN activeTrades
  /\ tradeSubscribers = <<>>
  /\ \E ws \in Sockets : readyState[ws] = "OPEN"

\* ------------------------------------------------------------------------
\* Properties of the account reads
\* ------------------------------------------------------------------------
Provenances == {"cache", "grpc", "rpc_fallback"}

\* Claim C28: what getAccount() returns is tagged with a source that is one
\* of cache, grpc, rpc_fallback, and an answer of the RPC provider is tagged
\* rpc_fallback and nothing else is.
C28_ProvenanceNamesSource ==
  delivered.result.kind \in {"account", "no_account"}
    => /\ delivered.result.source \in Provenances
       /\ delivered.result.source = "rpc_fallback"
            <=> delivered.result.rpcQueried

\* Claim C27: the list getMultipleAccounts returns has one entry per
\* requested address, in the order of the request: entry i is the entry of
\* address i, whatever addresses are cache hits.
C27_ResultsInRequestOrder ==
  accountsResponse.status = 200
    => /\ Len(accountsResponse.accounts) = Len(accountsResponse.request)
       /\ \A i \in 1..Len(accountsResponse.request) :
            accountsResponse.accounts[i].pubkey = accountsResponse.request[i]

\* How many entries of a list are for an address.
EntriesFor(accounts, pubkey) ==
  Cardinality({i \in 1..Len(accounts) : accounts[i].pubkey = pubkey})

\* Claim C29: a request with more than MaxAccountsPerRequest addresses is
\* answered with status 400 and the error of the limit, with no list of
\* accounts; nothing of it is fetched or cached and no getMultipleAccounts
\* call is started.  A request with at most that many addresses is
\* processed in full: its response has as many entries for each address as
\* the request names it.
C29_BatchLimit ==
  /\ [][\A body \in AccountsRequests :
          (PostAccounts(body) /\ body.isArray)
            => IF Len(body.pubkeys) > MaxAccountsPerRequest
                 THEN /\ accountsResponse'.status = 400
                      /\ accountsResponse'.error
                           = "Maximum 100 accounts per request"
                      /\ accountsResponse'.accounts = <<>>
                      /\ UNCHANGED <<batch, cacheVars>>
                 ELSE \/ /\ accountsResponse'.status = 200
                         /\ accountsResponse'.request = body.pubkeys
                      \/ /\ batch'.pc = "await"
                         /\ batch'.pubkeys = body.pubkeys]_vars
  /\ [](accountsResponse.status = 200
          => /\ accountsResponse.count = Len(accountsResponse.request)
             /\ \A pubkey \in Addrs :
                  EntriesFor(accountsResponse.accounts, pubkey)
                    = Cardinality({i \in 1..Len(accountsResponse.request) :
                                     accountsResponse.request[i] = pubkey}))

\* A request of one address too many was rejected while the cache held an
\* entry.
C29_Witness ==
  /\ accountsResponse.status = 400
  /\ Len(accountsResponse.request) = MaxAccountsPerRequest + 1
  /\ accountCache # <<>>
  /\ batch.pc = "idle"

\* ------------------------------------------------------------------------
\* executeSell against executeBuy
\* ------------------------------------------------------------------------
\* What a call shows: the statuses of its trade, the names of its steps and
\* the kind of its result ("none" while it is in flight).
CallShape(statuses, names, kind) ==
  [statuses |-> statuses, names |-> names, kind |-> kind]

\* The shape of a call of executeBuy after one more of its awaits settled.
ShapeStep(shape, step, signed) ==
  IF shape.kind # "none" THEN shape
  ELSE IF step.await = "blockhash_grpc" /\ step.outcome # "ok"
    THEN shape
  ELSE IF step.await \in {"blockhash_grpc", "blockhash_rpc"}
          /\ step.outcome = "ok"
    THEN [shape EXCEPT !.names = Append(@, "blockhash")]
  ELSE IF step.await = "quote" /\ step.outcome = "ok"
    THEN [shape EXCEPT !.names = Append(@, "quote")]
  ELSE IF step.await = "swap_tx" /\ step.outcome = "ok"
    THEN IF signed
           THEN [shape EXCEPT !.names = Append(@, "swap_tx")]
           ELSE CallShape(Append(shape.statuses, "awaiting_signature"),
                          Append(shape.names, "swap_tx"),
                          "awaiting_signature")
  ELSE IF step.await = "send_bundle" /\ step.outcome = "accepted"
    THEN CallShape(Append(shape.statuses, "submitted"),
                   Append(shape.names, "bundle_sent"), "success")
  ELSE CallShape(Append(shape.statuses, "failed"),
                 Append(shape.names, "error"), "error")

\* The shape of a call of executeBuy whose awaits step with these
\* outcomes.
RECURSIVE ShapeOf(_, _)
ShapeOf(outcomes, signed) ==
  IF outcomes = <<>>
    THEN CallShape(<<"pending", "started">>, <<>>, "none")
    ELSE ShapeStep(ShapeOf(SubSeq(outcomes, 1, Len(outcomes) - 1), signed),
                   outcomes[Len(outcomes)], signed)

\* Claim C30: executeSell creates its trade like executeBuy with the roles
\* of the assets reversed (input the token, output the native asset) and the
\* amount as a string; and after every step of a call, executeSell or
\* executeBuy, the statuses of the trade, the names of its steps and the
\* kind of the result are those of executeBuy for the same outcomes of the
\* providers and the same presence of a signed transaction.
C30_SellHasShapeOfBuy ==
  [][\A t \in TradeIds :
       /\ ((\E signed \in BOOLEAN, tipLamports \in TipAmounts :
               executeSell(signed, tipLamports)) /\ nextTradeId' = t)
            => /\ execCall'[t].op = "sell"
               /\ activeTrades'[t] =
                    [NewTrade("buy", t) EXCEPT
                       !.type = "sell",
                       !.status = "started",
                       !.step = "getting_blockhash",
                       !.inputMint = NewTrade("buy", t).outputMint,
                       !.outputMint = NewTrade("buy", t).inputMint,
                       !.amount = JsString(RequestAmount)]
               /\ activeTrades'[t].inputMint = TOKEN_MINT
               /\ activeTrades'[t].outputMint = SOL_MINT
       /\ (execCall'[t] # execCall[t] /\ t \in DOMAIN activeTrades')
            => CallShape(statusLog'[t], NamesOf(activeTrades'[t].steps),
                         returned'.kind)
                 = ShapeOf(execCall'[t].outcomes, execCall'[t].signed)]_vars

\* A sell with a signed transaction whose blockhash came from the RPC was
\* submitted.
C30_Witness ==
  \E t \in DOMAIN activeTrades :
    /\ activeTrades[t].type = "sell"
    /\ execCall[t].pc = "done"
    /\ execCall[t].signed
    /\ Len(execCall[t].outcomes) = 5
    /\ returned.kind = "success"
    /\ returned.op = "sell"
    /\ statusLog[t] = <<"pending", "started", "submitted">>

\* Claim C31: whenever an operation on the streaming provider fails, whoever
\* issued it, reconnect() of the manager is called.
C31_FailureTriggersReconnect ==
  [][\A p \in Procs, issuer \in OperationCallers :
       OperationFails(p, issuer) => proc'[p].op = "reconnect"]_vars

\* Claim C32: _cacheAccount evicts only when the insertion would make the
\* cache larger than maxCacheSize, and then exactly the oldest entry; an
\* insertion that does not (the key is cached already, or there is room)
\* evicts nothing.
C32_EvictsOnlyWhenExceeding ==
  [][\A pubkey \in Addrs \cup {ToString(maxCacheSize)} :
       CacheInsert(pubkey) =>
         LET keys == CacheKeys(accountCache)
             exceeds == pubkey \notin keys
                        /\ Len(accountCache) + 1 > maxCacheSize
         IN CacheKeys(accountCache') =
              IF exceeds THEN (keys \ {accountCache[1]}) \cup {pubkey}
              ELSE keys \cup {pubkey}]_vars

\* An executeBuy / executeSell or submitSignedTransaction call on trade t is
\* in flight.
StepInFlight(t) ==
  \/ execCall[t].pc \notin {"none", "done"}
  \/ submitCalls[t] > 0

\* Claim C33: a trade leaves the table only in a step of cleanup(), the
\* timer callback, which removes the trades older than the retention window,
\* and never while a call on the trade is in flight.
C33_ReapSparesTradesInFlight ==
  [][\A t \in DOMAIN activeTrades :
       t \notin DOMAIN activeTrades' =>
         /\ \E aged \in 0..nextTradeId : cleanup(aged) /\ t <= aged
         /\ ~StepInFlight(t)]_vars

\* What a trade is created with and keeps.
Identity(tr) ==
  <<tr.id, tr.type, tr.inputMint, tr.outputMint, tr.amount, tr.walletPubkey,
    tr.createdAt>>

\* Claim C34: as long as a trade is in the table, every step leaves the step
\* log it had as a prefix of the step log it has, and leaves its id, type,
\* input and output mint, amount, wallet and creation time as they are.
C34_StepLogAppendOnly ==
  [][\A t \in DOMAIN activeTrades \cap DOMAIN activeTrades' :
       LET before == activeTrades[t].steps
           after == activeTrades'[t].steps
       IN /\ Len(after) >= Len(before)
          /\ SubSeq(after, 1, Len(before)) = before
          /\ Identity(activeTrades'[t]) = Identity(activeTrades[t])
          /\ activeTrades'[t].id = t]_vars

\* An unsigned sell was submitted with its signed transaction: the log holds
\* the three steps of executeSell and the step of submitSignedTransaction.
C34_Witness ==
  \E t \in DOMAIN activeTrades :
    /\ activeTrades[t].type = "sell"
    /\ ~execCall[t].signed
    /\ NamesOf(activeTrades[t].steps) =
         <<"blockhash", "quote", "swap_tx", "bundle_sent">>
    /\ activeTrades[t].status = "submitted"
    /\ Identity(activeTrades[t]) =
         <<t, "sell", TOKEN_MINT, SOL_MINT, JsString(RequestAmount),
           WalletPubkey, t>>

\* p runs the first statement of reconnect(): it calls reconnect(), or its
\* reconnect() call caught the error of getClient() and calls itself.
EntersReconnect(p) ==
  \/ reconnect(p)
  \/ /\ proc[p].op = "reconnect"
     /\ proc[p].phase = "rejected"
     /\ OwnerResumes(p) \/ JoinerResumes(p)

\* Claim C35: reconnectAttempts stays within 0..maxReconnectAttempts; a step
\* changes it by adding one or, when a getClient() call resumes with its
\* connection made, by setting it to 0; and a reconnect() entered when it
\* equals maxReconnectAttempts returns null and touches neither the client
\* nor the connection promise.
C35_ReconnectAttemptsBounded ==
  /\ [](reconnectAttempts \in 0..maxReconnectAttempts)
  /\ [][/\ reconnectAttempts' # reconnectAttempts =>
             \/ reconnectAttempts' = reconnectAttempts + 1
             \/ /\ reconnectAttempts' = 0
                /\ \E p \in Procs : /\ proc[p].pc = "await_own"
                                     /\ proc[p].phase = "resolved"
                                     /\ OwnerResumes(p)
        /\ \A p \in Procs :
             (reconnectAttempts = maxReconnectAttempts /\ EntersReconnect(p))
               => /\ proc'[p] = Finished("reconnect", Resolution(NoClient))
                  /\ UNCHANGED <<client, connectionPromise,
                                 reconnectAttempts>>]_vars

\* reconnectAttempts is at its maximum, one reconnect() call has returned
\* null and no attempt is in flight.
C35_Witness ==
  /\ reconnectAttempts = maxReconnectAttempts
  /\ reconnectTries = maxReconnectAttempts
  /\ client = NoClient
  /\ \E p \in Procs : proc[p] = Finished("reconnect", Resolution(NoClient))
  /\ \A p \in Procs : proc[p].pc = "done"

\* Claim C36: a getClient() call that returns (does not throw) returns a
\* client, never null, whatever reconnect() calls discard the client while
\* the connection attempt is in flight.
C36_GetClientNeverNull ==
  \A p \in Procs :
    (proc[p].op = "getClient" /\ proc[p].pc = "done")
      => proc[p].result.kind \in {"client", "error"}

\* Claim C37: a socket of /grpc/subscribe/* never has more than one open
\* upstream stream, and every open upstream stream is the stream of the
\* registry entry of its socket, so that removeSubscriber can destroy it.
C37_OneRegisteredStreamPerSocket ==
  \A ws \in WsClients :
    /\ Cardinality(openStreams[ws]) <= 1
    /\ openStreams[ws] \subseteq {subscribers[ws]}

\* Claim C38: a trade is submitted exactly when it has a bundle id and a
\* bundle_sent step; a failed trade has no bundle id; and the bundle id of a
\* trade, once set, stays what it is.
C38_SubmittedIffBundle ==
  /\ [](\A t \in DOMAIN activeTrades :
          LET tr == activeTrades[t]
          IN /\ tr.status = "submitted"
                  <=> /\ tr.bundleId # NoBundle
                      /\ CountSteps(t, "bundle_sent") > 0
             /\ tr.status = "failed" => tr.bundleId = NoBundle)
  /\ [][\A t \in DOMAIN activeTrades \cap DOMAIN activeTrades' :
          activeTrades[t].bundleId # NoBundle
            => activeTrades'[t].bundleId = activeTrades[t].bundleId]_vars

\* The getAccount() calls that made the pending request of pubkey and have
\* not returned.
FetchOwners(pubkey) ==
  {c \in Callers : caller[c].pc = "await_own" /\ caller[c].pubkey = pubkey}

\* Claim C39: the pending request of an address is there exactly while the
\* getAccount() call that started a fetch for it has not returned; the call
\* deletes it when it resumes, whether the fetch succeeded, failed or timed
\* out; a fetch that completes leads to its deletion; and a call made for an
\* address with no fresh entry and no pending request starts a new fetch.
C39_InFlightMarkerFollowsFetch ==
  /\ [](\A pubkey \in Addrs :
          /\ pendingRequests[pubkey] # NoPending <=> FetchOwners(pubkey) # {}
          /\ pendingRequests[pubkey] # NoPending
               => FetchOwners(pubkey) = {pendingRequests[pubkey].owner})
  /\ [][\A c \in Callers :
          (caller[c].pc = "await_own" /\ caller'[c].pc = "done")
            => /\ caller[c].stage \in Settled
               /\ pendingRequests'[caller[c].pubkey] = NoPending]_vars
  /\ [][\A c \in Callers, pubkey \in Addrs :
          (/\ getAccount(c, pubkey)
           /\ pubkey \notin freshEntries
           /\ FetchOwners(pubkey) = {})
            => /\ caller'[c].pc = "await_own"
               /\ caller'[c].stage = "getClient"
               /\ pendingRequests'[pubkey].owner = c
               /\ pendingRequests'[pubkey].state = "pending"]_vars
  /\ \A pubkey \in Addrs :
       (pendingRequests[pubkey] # NoPending)
         ~> (pendingRequests[pubkey] = NoPending)

\* A fetch ran into its timer, its failure was handed to the caller, and no
\* pending request is left.
C39_Witness ==
  /\ delivered.result.kind = "error"
  /\ delivered.result.error = "Account fetch timeout"
  /\ \A pubkey \in Addrs : pendingRequests[pubkey] = NoPending
  /\ \A c \in Callers : caller[c].pc = "done"

\* Claim C40: in the positions hub, allWatchedMints is the union of the mint
\* sets of the connected sockets, the poll timer is set exactly when that
\* set is not empty, every key of mintCache is a watched mint, and an update
\* message sent to a socket names only mints of the set the socket has at
\* that moment.
C40_HubFollowsClients ==
  /\ [](/\ DOMAIN clientMints = positionClients
        /\ positionClients = {ws \in HubClients :
                                hubConn[ws] \in {"open", "closing"}}
        /\ allWatchedMints = UNION {clientMints[ws] : ws \in positionClients}
        /\ positionsPollTimer <=> allWatchedMints # {}
        /\ mintCache \subseteq allWatchedMints)
  /\ [][\A ws \in HubClients :
          hubOut'[ws] # {} =>
            /\ ws \in DOMAIN clientMints'
            /\ hubOut'[ws] \subseteq clientMints'[ws]]_vars

\* A poll has updates of both mints: socket 1, which watches mintA only, is
\* sent the update of mintA, and socket 2, which watches mintB only, the
\* update of mintB.
C40_Witness ==
  /\ positionClients = HubClients
  /\ clientMints[1] = {"mintA"}
  /\ clientMints[2] = {"mintB"}
  /\ hubOut[1] = {"mintA"}
  /\ hubOut[2] = {"mintB"}
  /\ mintCache = Mints
  /\ positionsPollTimer

====
